---------------------------- MODULE Spec2Model ----------------------------
(***************************************************************************)
(* Model of the gRPC nil-value linter (pkg/analyzer): the nil-status       *)
(* lattice and its join, the value-level analysis with its per-query       *)
(* cache, the per-function summaries, and the handler driver.              *)
(***************************************************************************)
EXTENDS Naturals, Sequences, FiniteSets, TLC

VARIABLES
    ssa,          \* the SSA values of the program: value id -> instruction
    fns,          \* the SSA functions: function id -> sequence of blocks
    visited,      \* NilFlowAnalyzer.visited
    funcSummary,  \* NilFlowAnalyzer.funcSummary
    stack,        \* the activation records of ValueNilStatus, innermost last
    ret,          \* the value returned by the last ValueNilStatus return
    evals,        \* observer: rule evaluations per value since the last Reset
    steps,        \* observer: steps taken by the running top-level call
    lastCall,     \* observer: the last ValueNilStatus call that returned
    returned,     \* observer: first status returned per value since the last Reset
    answered,     \* observer: the same, re-visits of values in progress included
    summaryLog,   \* observer: the status each summary had when first computed,
                  \* and whether a Reset has happened since
    joinArgs,     \* operands handed to joinNilStatus
    joinOut,      \* results of joinNilStatus on joinArgs, <<>> before the call
    handler,      \* the HandlerInfo handed to analyzeHandler
    hpc,          \* where analyzeHandler is: "idle", "scan" or "done"
    pos,          \* the <<block, instruction>> analyzeHandler is at
    msgInfo,      \* analyzeHandler's msgInfo, <<>> before it is set
    cache,        \* ProtoFieldAnalyzer.cache
    diags,        \* the diagnostics reported through pass.Reportf, in order
    scanned,      \* observer: the instruction scanned last, what it caused,
                  \* the analyzer before it and the analyzer as its query
                  \* found it, or the type AnalyzeMessage was asked for last
                  \* and whether it was cached; <<>> before the first
    queries,      \* observer: IsMaybeNil calls made by analyzeHandler
    srcFuncs,     \* the functions run walks (res.SrcFuncs)
    fnIdx,        \* the index in srcFuncs of the function run is at
    generated,    \* the fields declared by the named type "Generated"
    runs          \* the earlier runs of the analyzer on the package: the
                  \* functions as they were walked and the diagnostics

vars == <<ssa, fns, visited, funcSummary, stack, ret, evals, steps, lastCall,
          returned, answered, summaryLog, joinArgs, joinOut, handler, hpc,
          pos, msgInfo, cache, diags, scanned, queries, srcFuncs, fnIdx,
          generated, runs>>

joinVars == <<joinArgs, joinOut>>

driverVars == <<handler, hpc, pos, msgInfo, cache, diags, scanned, queries>>

progVars == <<srcFuncs, fnIdx, generated, runs>>

---------------------------------------------------------------------------
(* Bounds of the model *)

NumInner == 2      \* non-leaf SSA values of a generated value graph
MaxEdges == 2      \* incoming edges of a generated phi
MaxBlocks == 2     \* blocks of a generated callee

---------------------------------------------------------------------------
(* NilStatus, model.go *)

NilStatusUnknown == "Unknown"
NilStatusNotNil == "NotNil"
NilStatusMaybeNil == "MaybeNil"
NilStatusDefinitelyNil == "DefinitelyNil"

NilStatus ==
    {NilStatusUnknown, NilStatusNotNil, NilStatusMaybeNil, NilStatusDefinitelyNil}

\* A map without the key.
Absent == "absent"
\* The nil ssa.Value and the nil *ssa.Function.
NoValue == 0
NoFunc == 0

---------------------------------------------------------------------------
(* joinNilStatus *)

joinNilStatusDropsNilWitness(a, b) ==
    IF a = NilStatusUnknown \/ b = NilStatusUnknown
    THEN NilStatusUnknown
    ELSE IF a = NilStatusDefinitelyNil /\ b = NilStatusDefinitelyNil
    THEN NilStatusDefinitelyNil
    ELSE IF a = NilStatusNotNil /\ b = NilStatusNotNil
    THEN NilStatusNotNil
    ELSE NilStatusMaybeNil

joinNilStatusTakesLast(a, b) == b

joinNilStatusLeftBiased(a, b) ==
    IF a = NilStatusUnknown \/ b = NilStatusUnknown
    THEN IF a = NilStatusDefinitelyNil \/ b = NilStatusDefinitelyNil
         THEN NilStatusMaybeNil
         ELSE NilStatusUnknown
    ELSE IF a = NilStatusDefinitelyNil
    THEN NilStatusDefinitelyNil
    ELSE IF a = NilStatusNotNil /\ b = NilStatusNotNil
    THEN NilStatusNotNil
    ELSE NilStatusMaybeNil

joinNilStatus(a, b) ==
    IF a = NilStatusUnknown \/ b = NilStatusUnknown
    THEN IF a = NilStatusDefinitelyNil \/ b = NilStatusDefinitelyNil
         THEN NilStatusMaybeNil
         ELSE NilStatusUnknown
    ELSE IF a = NilStatusDefinitelyNil /\ b = NilStatusDefinitelyNil
    THEN NilStatusDefinitelyNil
    ELSE IF a = NilStatusNotNil /\ b = NilStatusNotNil
    THEN NilStatusNotNil
    ELSE NilStatusMaybeNil

---------------------------------------------------------------------------
(* SSA values.  An instruction is a record: kind is the Go type of the     *)
(* value, isNil is Const.IsNil(), op is UnOp.Op, X the operand, Edges the  *)
(* phi edges, callee the StaticCallee of a call (NoFunc when there is      *)
(* none).                                                                  *)

Instr(kind, isNil, op, x, edges, callee) ==
    [kind |-> kind, isNil |-> isNil, op |-> op, X |-> x, Edges |-> edges,
     callee |-> callee]

ConstNil == Instr("Const", TRUE, "", NoValue, <<>>, NoFunc)
ConstNonNil == Instr("Const", FALSE, "", NoValue, <<>>, NoFunc)
AllocInstr == Instr("Alloc", FALSE, "", NoValue, <<>>, NoFunc)
ParameterInstr == Instr("Parameter", FALSE, "", NoValue, <<>>, NoFunc)
MakeInterface(x) == Instr("MakeInterface", FALSE, "", x, <<>>, NoFunc)
ChangeInterface(x) == Instr("ChangeInterface", FALSE, "", x, <<>>, NoFunc)
UnOp(op, x) == Instr("UnOp", FALSE, op, x, <<>>, NoFunc)
Phi(edges) == Instr("Phi", FALSE, "", NoValue, edges, NoFunc)
CallInstr(callee) == Instr("Call", FALSE, "", NoValue, <<>>, callee)

Values == DOMAIN ssa
Funcs == DOMAIN fns

\* The operands ValueNilStatus recurses into.
Operands(g, v) ==
    CASE g[v].kind \in {"MakeInterface", "ChangeInterface"} -> {g[v].X}
      [] g[v].kind = "UnOp" /\ g[v].op = "MUL" -> {g[v].X}
      [] g[v].kind = "Phi" -> {g[v].Edges[i] : i \in DOMAIN g[v].Edges}
      [] OTHER -> {}

RECURSIVE ReachFrom(_, _, _)
ReachFrom(g, frontier, seen) ==
    LET next == UNION {Operands(g, v) : v \in frontier} \ seen
    IN  IF next = {} THEN seen ELSE ReachFrom(g, next, seen \cup next)

\* v lies on a cycle of the recursion.
OnCycle(g, v) == v \in ReachFrom(g, {v}, {})

---------------------------------------------------------------------------
(* SSA functions, as callNilStatus reads them: a function is a sequence of *)
(* blocks, a block a sequence of instructions, an instruction either a     *)
(* Return with the kinds of its results or something else.                 *)

ReturnInstr(results) == [op |-> "Return", Results |-> results]
OtherInstr == [op |-> "Other", Results |-> <<>>]

ResultKinds == {"Alloc", "ConstNil", "Const", "Other"}

\* joinNilStatus contribution of a return site's first result.
returnSiteStatusTrustsOther(rv) ==
    CASE rv = "Alloc" -> NilStatusNotNil
      [] rv = "ConstNil" -> NilStatusDefinitelyNil
      [] rv = "Const" -> NilStatusNotNil
      [] OTHER -> NilStatusNotNil

returnSiteStatus(rv) ==
    CASE rv = "Alloc" -> NilStatusNotNil
      [] rv = "ConstNil" -> NilStatusDefinitelyNil
      [] rv = "Const" -> NilStatusNotNil
      [] OTHER -> NilStatusMaybeNil

stopsScan(status) ==
    status = NilStatusMaybeNil \/ status = NilStatusDefinitelyNil

\* The inner loop of callNilStatus over b.Instrs from position i.
RECURSIVE scanInstrs(_, _, _)
scanInstrs(instrs, i, status) ==
    IF i > Len(instrs) THEN status
    ELSE LET instr == instrs[i] IN
         IF instr.op # "Return" \/ Len(instr.Results) = 0
         THEN scanInstrs(instrs, i + 1, status)
         ELSE LET s == joinNilStatus(status, returnSiteStatus(instr.Results[1]))
              IN  IF stopsScan(s) THEN s ELSE scanInstrs(instrs, i + 1, s)

scanBlocksFirstOnly(blocks, i, status) ==
    IF i > Len(blocks) THEN status ELSE scanInstrs(blocks[i], 1, status)

\* The outer loop of callNilStatus over fn.Blocks from position i.
RECURSIVE scanBlocks(_, _, _)
scanBlocks(blocks, i, status) ==
    IF i > Len(blocks) THEN status
    ELSE LET s == scanInstrs(blocks[i], 1, status)
         IN  IF stopsScan(s) THEN s ELSE scanBlocks(blocks, i + 1, s)

callNilStatusSharedSummary(summary, F, callee) ==
    IF callee = NoFunc
    THEN [status |-> NilStatusUnknown, funcSummary |-> summary]
    ELSE IF \E f \in DOMAIN summary : summary[f] # Absent
    THEN [status |-> summary[CHOOSE f \in DOMAIN summary :
                                 summary[f] # Absent],
          funcSummary |-> summary]
    ELSE LET s == scanBlocks(F[callee], 1, NilStatusNotNil)
         IN  [status |-> s, funcSummary |-> [summary EXCEPT ![callee] = s]]

callNilStatusSummarizesAll(summary, F, callee) ==
    IF callee = NoFunc
    THEN [status |-> NilStatusUnknown, funcSummary |-> summary]
    ELSE IF summary[callee] # Absent
    THEN [status |-> summary[callee], funcSummary |-> summary]
    ELSE LET all == [f \in DOMAIN summary |->
                        IF summary[f] # Absent THEN summary[f]
                        ELSE scanBlocks(F[f], 1, NilStatusNotNil)]
         IN  [status |-> all[callee], funcSummary |-> all]

\* callNilStatus: the status returned and the summaries afterwards.
callNilStatus(summary, F, callee) ==
    IF callee = NoFunc
    THEN [status |-> NilStatusUnknown, funcSummary |-> summary]
    ELSE IF summary[callee] # Absent
    THEN [status |-> summary[callee], funcSummary |-> summary]
    ELSE LET s == scanBlocks(F[callee], 1, NilStatusNotNil)
         IN  [status |-> s, funcSummary |-> [summary EXCEPT ![callee] = s]]

---------------------------------------------------------------------------
(* ValueNilStatus, one step at a time.  The machine m is the analyzer's    *)
(* two maps, the activation records and the last returned status.  A       *)
(* frame is at "enter" (the call has just been made), at "unary" (waiting  *)
(* for ValueNilStatus(val.X)) or at "phi" (waiting for edge i).            *)

Frame(v) == [v |-> v, pc |-> "enter", i |-> 0, status |-> NilStatusNotNil]

Top(m) == m.stack[Len(m.stack)]
Caller(m) == SubSeq(m.stack, 1, Len(m.stack) - 1)

\* a.visited[v], the zero value when the key is missing.
Lookup(vis, v) == IF vis[v] = Absent THEN NilStatusUnknown ELSE vis[v]

\* return s
Return(m, s) ==
    [m EXCEPT !.stack = Caller(m), !.ret = s,
              !.lastCall = [v |-> Top(m).v, status |-> s,
                            inProgress |-> \E k \in 1..(Len(m.stack) - 1) :
                                               m.stack[k].v = Top(m).v]]

\* return a.visited[v]
ReturnVisited(m) == Return(m, Lookup(m.visited, Top(m).v))

\* a.visited[v] = s, then return a.visited[v]
StoreDropped(m, s) == Return(m, s)

Store(m, s) == ReturnVisited([m EXCEPT !.visited[Top(m).v] = s])

\* a.visited[v] = NilStatusUnknown, to break cycles
SeedSkipped(m) == [m EXCEPT !.evals[Top(m).v] = @ + 1]

SeedNotNil(m) ==
    [m EXCEPT !.visited[Top(m).v] = NilStatusNotNil,
              !.evals[Top(m).v] = @ + 1]

Seed(m) ==
    [m EXCEPT !.visited[Top(m).v] = NilStatusUnknown,
              !.evals[Top(m).v] = @ + 1]

\* the call a.ValueNilStatus(x) made from the top frame, which waits at pc
Recurse(m, pc, i, status, x) ==
    LET waiting == [v |-> Top(m).v, pc |-> pc, i |-> i, status |-> status]
    IN  [m EXCEPT !.stack = Append([m.stack EXCEPT ![Len(m.stack)] = waiting],
                                   Frame(x))]

EnterValue(m, g, F) ==
    LET v == Top(m).v IN
    IF v = NoValue THEN Return(m, NilStatusUnknown)
    ELSE IF m.visited[v] # Absent THEN Return(m, m.visited[v])
    ELSE LET m1 == Seed(m)
             val == g[v]
         IN  CASE val.kind = "Const" ->
                    Store(m1, IF val.isNil THEN NilStatusDefinitelyNil
                                           ELSE NilStatusNotNil)
               [] val.kind = "Alloc" -> Store(m1, NilStatusNotNil)
               [] val.kind = "MakeInterface" ->
                    Recurse(m1, "unary", 0, NilStatusNotNil, val.X)
               [] val.kind = "ChangeInterface" ->
                    Recurse(m1, "unary", 0, NilStatusNotNil, val.X)
               [] val.kind = "Phi" ->
                    IF Len(val.Edges) = 0 THEN Store(m1, NilStatusNotNil)
                    ELSE Recurse(m1, "phi", 1, NilStatusNotNil, val.Edges[1])
               [] val.kind = "UnOp" ->
                    IF val.op = "MUL"
                    THEN Recurse(m1, "unary", 0, NilStatusNotNil, val.X)
                    ELSE ReturnVisited(m1)
               [] val.kind = "Call" ->
                    LET c == callNilStatus(m1.funcSummary, F, val.callee)
                    IN  Store([m1 EXCEPT !.funcSummary = c.funcSummary],
                              c.status)
               [] OTHER -> Store(m1, NilStatusUnknown)

ResumeUnaryUnknown(m) == Store(m, NilStatusUnknown)

\* a.visited[v] = a.ValueNilStatus(val.X) has its operand's status
ResumeUnary(m) == Store(m, m.ret)

ResumePhiFirstEdgeOnly(m, g) ==
    Store(m, joinNilStatus(Top(m).status, m.ret))

\* the body of the loop over val.Edges, after edge i returned
ResumePhi(m, g) ==
    LET f == Top(m)
        edges == g[f.v].Edges
        status == joinNilStatus(f.status, m.ret)
    IN  IF stopsScan(status) \/ f.i = Len(edges)
        THEN Store(m, status)
        ELSE Recurse(m, "phi", f.i + 1, status, edges[f.i + 1])

ValueNilStatusStep(m, g, F) ==
    LET m0 == [m EXCEPT !.steps = @ + 1] IN
    CASE Top(m).pc = "enter" -> EnterValue(m0, g, F)
      [] Top(m).pc = "unary" -> ResumeUnary(m0)
      [] Top(m).pc = "phi" -> ResumePhi(m0, g)

\* The whole call a.ValueNilStatus(v): the machine after the call returned.
RECURSIVE RunToReturn(_, _, _)
RunToReturn(m, g, F) ==
    IF m.stack = <<>> THEN m ELSE RunToReturn(ValueNilStatusStep(m, g, F), g, F)

NoCall == [v |-> NoValue, status |-> NilStatusUnknown, inProgress |-> FALSE]

Machine ==
    [visited |-> visited, funcSummary |-> funcSummary, stack |-> stack,
     ret |-> ret, evals |-> evals, steps |-> steps, lastCall |-> lastCall]

ValueNilStatus(m, g, F, v) ==
    RunToReturn([m EXCEPT !.stack = <<Frame(v)>>, !.steps = 0], g, F)

\* IsMaybeNil on the status ValueNilStatus returned
IsMaybeNilIgnoresUnknown(s) ==
    s = NilStatusMaybeNil \/ s = NilStatusDefinitelyNil

IsMaybeNil(s) ==
    s = NilStatusMaybeNil \/ s = NilStatusDefinitelyNil \/ s = NilStatusUnknown

\* Reset: every key of visited deleted, funcSummary kept
ResetMapsClearsSummaries(vis, summary) ==
    [visited |-> [v \in DOMAIN vis |-> Absent],
     funcSummary |-> [f \in DOMAIN summary |-> Absent]]

ResetMaps(vis, summary) ==
    [visited |-> [v \in DOMAIN vis |-> Absent], funcSummary |-> summary]


---------------------------------------------------------------------------
(* The programs analysed *)

\* Leaves of a generated value graph: a nil constant, an allocation, a
\* parameter.
FlowLeaves == <<ConstNil, AllocInstr, ParameterInstr>>

EdgeSeqs(n) == UNION {[1..k -> 1..n] : k \in 1..MaxEdges}

\* The instructions value v of n may be: an operand of a non-phi
\* instruction is defined before it, the edges of a phi are any values.
InnerInstrs(v, n) ==
    {MakeInterface(x) : x \in 1..(v - 1)}
        \cup {ChangeInterface(x) : x \in 1..(v - 1)}
        \cup {UnOp("MUL", x) : x \in 1..(v - 1)}
        \cup {UnOp("ARROW", x) : x \in 1..(v - 1)}
        \cup {Phi(e) : e \in EdgeSeqs(n)}

RECURSIVE GraphsUpTo(_, _)
GraphsUpTo(v, n) ==
    IF v <= Len(FlowLeaves) THEN {SubSeq(FlowLeaves, 1, v)}
    ELSE {Append(g, instr) : g \in GraphsUpTo(v - 1, n),
                             instr \in InnerInstrs(v, n)}

FlowGraphs == GraphsUpTo(Len(FlowLeaves) + NumInner, Len(FlowLeaves) + NumInner)

---------------------------------------------------------------------------
(* The nil-flow analyzer on a value graph *)

NoJoin == [a |-> Absent, b |-> Absent, c |-> Absent]

JoinIdle == joinArgs = NoJoin /\ joinOut = <<>>

DriverIdle ==
    /\ handler = <<>>
    /\ hpc = "idle"
    /\ pos = <<1, 1>>
    /\ msgInfo = <<>>
    /\ cache = <<>>
    /\ diags = <<>>
    /\ scanned = <<>>
    /\ queries = 0
    /\ srcFuncs = <<>>
    /\ fnIdx = 0
    /\ generated = <<>>
    /\ runs = <<>>

AnalyzerInit ==
    /\ visited = [v \in DOMAIN ssa |-> Absent]
    /\ funcSummary = [f \in DOMAIN fns |-> Absent]
    /\ stack = <<>>
    /\ ret = NilStatusUnknown
    /\ evals = [v \in DOMAIN ssa |-> 0]
    /\ steps = 0
    /\ lastCall = NoCall
    /\ returned = [v \in DOMAIN ssa |-> Absent]
    /\ answered = [v \in DOMAIN ssa |-> Absent]
    /\ summaryLog = [f \in DOMAIN fns |-> [status |-> Absent, kept |-> FALSE]]

InitFlow ==
    /\ ssa \in FlowGraphs
    /\ fns = <<>>
    /\ AnalyzerInit
    /\ JoinIdle
    /\ DriverIdle

\* Observers of a machine step: the first status a completed call returned
\* for each value, and the status each summary had when it first appeared.
\* They are written by the model only and read by no action.
Observe(m) ==
    /\ returned' =
          IF /\ Len(m.stack) < Len(stack)
             /\ m.lastCall.v # NoValue
             /\ ~m.lastCall.inProgress
             /\ returned[m.lastCall.v] = Absent
          THEN [returned EXCEPT ![m.lastCall.v] = m.lastCall.status]
          ELSE returned
    /\ answered' =
          IF /\ Len(m.stack) < Len(stack)
             /\ m.lastCall.v # NoValue
             /\ answered[m.lastCall.v] = Absent
          THEN [answered EXCEPT ![m.lastCall.v] = m.lastCall.status]
          ELSE answered
    /\ summaryLog' =
          [f \in DOMAIN fns |->
              IF summaryLog[f].status = Absent
              THEN [status |-> m.funcSummary[f], kept |-> FALSE]
              ELSE summaryLog[f]]

SetMachine(m) ==
    /\ visited' = m.visited
    /\ funcSummary' = m.funcSummary
    /\ stack' = m.stack
    /\ ret' = m.ret
    /\ evals' = m.evals
    /\ steps' = m.steps
    /\ lastCall' = m.lastCall

\* A client calls a.ValueNilStatus(v).
Query(v) ==
    /\ stack = <<>>
    /\ SetMachine([Machine EXCEPT !.stack = <<Frame(v)>>, !.steps = 0])
    /\ UNCHANGED <<ssa, fns, returned, answered, summaryLog, joinVars, driverVars,
                   progVars>>

\* The running call takes its next step.
Step ==
    /\ stack # <<>>
    /\ LET m == ValueNilStatusStep(Machine, ssa, fns)
       IN  SetMachine(m) /\ Observe(m)
    /\ UNCHANGED <<ssa, fns, joinVars, driverVars,
                   progVars>>

\* A client calls a.Reset().
Reset ==
    /\ stack = <<>>
    /\ LET r == ResetMaps(visited, funcSummary)
       IN  visited' = r.visited /\ funcSummary' = r.funcSummary
    /\ evals' = [v \in DOMAIN ssa |-> 0]
    /\ returned' = [v \in DOMAIN ssa |-> Absent]
    /\ answered' = [v \in DOMAIN ssa |-> Absent]
    /\ ret' = NilStatusUnknown
    /\ steps' = 0
    /\ lastCall' = NoCall
    /\ summaryLog' =
          [f \in DOMAIN fns |->
              [summaryLog[f] EXCEPT !.kept = summaryLog[f].status # Absent]]
    /\ UNCHANGED <<ssa, fns, stack, joinVars, driverVars,
                   progVars>>

NextFlow ==
    \/ \E v \in Values \cup {NoValue} : Query(v)
    \/ Step
    \/ Reset

SpecFlow == InitFlow /\ [][NextFlow]_vars


---------------------------------------------------------------------------
(* joinNilStatus on its own: the operands are drawn, then joined *)

InitJoin ==
    /\ joinArgs \in [a : NilStatus, b : NilStatus, c : NilStatus]
    /\ joinOut = <<>>
    /\ ssa = <<>>
    /\ fns = <<>>
    /\ AnalyzerInit
    /\ DriverIdle

ApplyJoin ==
    /\ joinOut = <<>>
    /\ joinOut' = [ab |-> joinNilStatus(joinArgs.a, joinArgs.b),
                   ba |-> joinNilStatus(joinArgs.b, joinArgs.a),
                   aa |-> joinNilStatus(joinArgs.a, joinArgs.a),
                   ab_c |-> joinNilStatus(joinNilStatus(joinArgs.a, joinArgs.b),
                                          joinArgs.c),
                   a_bc |-> joinNilStatus(joinArgs.a,
                                          joinNilStatus(joinArgs.b, joinArgs.c))]
    /\ UNCHANGED <<joinArgs, ssa, fns, visited, funcSummary, stack, ret, evals,
                   steps, lastCall, returned, answered, summaryLog, driverVars,
                   progVars>>

NextJoin == ApplyJoin

SpecJoin == InitJoin /\ [][NextJoin]_vars

\* The join table the lattice is specified by.
JoinTable(a, b) ==
    CASE a = b -> a
      [] {a, b} = {NilStatusNotNil, NilStatusUnknown} -> NilStatusUnknown
      [] OTHER -> NilStatusMaybeNil

\* C4: joinNilStatus returns the entry of the join table for every ordered
\* pair of lattice elements.
JoinMatchesTable ==
    joinOut # <<>> =>
        /\ joinOut.ab = JoinTable(joinArgs.a, joinArgs.b)
        /\ joinOut.ba = JoinTable(joinArgs.b, joinArgs.a)

\* C5: joinNilStatus is commutative and idempotent on the four lattice
\* elements.
JoinCommutativeIdempotent ==
    joinOut # <<>> =>
        /\ joinOut.ab = joinOut.ba
        /\ joinOut.aa = joinArgs.a

\* C5 witness: two different elements, one of them Unknown, have been joined.
JoinAppliedToMixedPair ==
    /\ joinOut # <<>>
    /\ joinArgs.a = NilStatusDefinitelyNil
    /\ joinArgs.b = NilStatusUnknown
    /\ joinOut.ab = NilStatusMaybeNil

---------------------------------------------------------------------------
(* Claims about ValueNilStatus on value graphs, under SpecFlow *)

\* C6: no value that lies on a cycle of the recursion is assigned NotNil in
\* the value cache or returned as NotNil, whichever value the query starts
\* from.
CycleValuesNeverNotNil ==
    \A v \in Values :
        OnCycle(ssa, v) =>
            /\ visited[v] # NilStatusNotNil
            /\ lastCall.v = v => lastCall.status # NilStatusNotNil

\* C6 witness: a query that started outside a cycle has returned, and the
\* cycle runs through a phi and an interface construction, both evaluated.
CycleThroughInterfaceEvaluated ==
    /\ stack = <<>>
    /\ \E v, w \in Values :
          /\ v # w
          /\ ssa[v].kind = "Phi"
          /\ ssa[w].kind = "MakeInterface"
          /\ w \in ReachFrom(ssa, {v}, {})
          /\ v \in ReachFrom(ssa, {w}, {})
          /\ visited[v] # Absent
          /\ visited[w] # Absent
          /\ lastCall.v \notin {v, w, NoValue}
          /\ ~OnCycle(ssa, lastCall.v)

\* Calls ValueNilStatus makes while evaluating v.
Fanout(g, v) ==
    CASE g[v].kind = "Phi" -> Len(g[v].Edges)
      [] Operands(g, v) # {} -> 1
      [] OTHER -> 0

RECURSIVE SumFanout(_, _)
SumFanout(g, n) == IF n = 0 THEN 0 ELSE Fanout(g, n) + SumFanout(g, n - 1)

\* One step for the top-level call, and an entry and a resumption for every
\* call made by a value that is evaluated once.
CallBound(g) == 1 + 2 * SumFanout(g, Len(g))

\* C7: ValueNilStatus terminates on every value graph: between two Resets
\* the rule of each value is evaluated at most once, the recursion is no
\* deeper than the number of values plus the re-visit, and a top-level call
\* returns within CallBound steps.
EvaluatedOnceAndBounded ==
    /\ \A v \in Values : evals[v] <= 1
    /\ Len(stack) <= Cardinality(Values) + 1
    /\ steps <= CallBound(ssa)

\* C7 witness: a value that is being evaluated was visited again through a
\* cycle, and the re-visit returned the cached seed.
RevisitReturnedSeed ==
    /\ lastCall.inProgress
    /\ lastCall.status = NilStatusUnknown
    /\ evals[lastCall.v] = 1
    /\ stack # <<>>

\* C9 as stated: between two Resets, every call of ValueNilStatus on a
\* value, the calls the recursion makes for operands included, returns the
\* element the first call on that value returned.
AllCallsAgree ==
    lastCall.v # NoValue => answered[lastCall.v] = lastCall.status

\* C9, amended: between two Resets, every call of ValueNilStatus on a value
\* that returns the result of its evaluation or the cached result of it,
\* whether made by a client or for an operand, returns what the first such
\* call on that value returned.  The re-visit of a value that is still being
\* evaluated is left out: it returns the seed.
RepeatedCallsAgree ==
    (lastCall.v # NoValue /\ ~lastCall.inProgress) =>
        returned[lastCall.v] = lastCall.status

\* C9 witness: value 5 = phi(4, 2) was evaluated as an operand of value
\* 4 = phi(5, 1) while 4 was in progress (a query starting at 5 would have
\* given it MaybeNil), the parameter 3 was queried as well, and a later
\* top-level call on 5 has returned from the cache.
RequeryOfCycleOperand ==
    /\ Len(ssa) = 5
    /\ ssa[4] = Phi(<<5, 1>>)
    /\ ssa[5] = Phi(<<4, 2>>)
    /\ visited[4] = NilStatusMaybeNil
    /\ visited[5] = NilStatusUnknown
    /\ visited[3] # Absent
    /\ stack = <<>>
    /\ steps = 1
    /\ lastCall.v = 5
---------------------------------------------------------------------------
(* The nil-flow analyzer on calls: the callee bodies are drawn *)

\* What a block of a callee may be: no return, a return without results, or
\* a return whose first result is of one of the kinds callNilStatus tells
\* apart.
BlockShapes ==
    {<<OtherInstr>>, <<ReturnInstr(<<>>)>>}
        \cup {<<OtherInstr, ReturnInstr(<<k>>)>> : k \in ResultKinds}

\* Function bodies; the empty one is a function without blocks.
FnBodies == UNION {[1..n -> BlockShapes] : n \in 0..MaxBlocks}

\* complexflow.buildProfileMaybeNil: if cond() { return &UserProfile{} };
\* return nil
buildProfileMaybeNil ==
    <<<<OtherInstr, OtherInstr>>,
      <<OtherInstr, ReturnInstr(<<"Alloc">>)>>,
      <<ReturnInstr(<<"ConstNil">>)>>>>

\* complexflow.buildProfileNonNil: return &UserProfile{}
buildProfileNonNil == <<<<OtherInstr, ReturnInstr(<<"Alloc">>)>>>>

\* Two call sites of function 1, one of function 2, one call without a
\* static callee.
CallSites == <<CallInstr(1), CallInstr(2), CallInstr(1), CallInstr(NoFunc)>>

InitCalls ==
    /\ ssa = CallSites
    /\ \E body \in FnBodies : fns = <<body, buildProfileMaybeNil>>
    /\ AnalyzerInit
    /\ JoinIdle
    /\ DriverIdle

SpecCalls == InitCalls /\ [][NextFlow]_vars

\* C10: once the summary of a callee has been computed, no operation
\* changes or removes it, and every call with that callee, before or after
\* any Reset, returns it.
SummariesStable ==
    \A f \in Funcs :
        summaryLog[f].status # Absent =>
            /\ funcSummary[f] = summaryLog[f].status
            /\ \A v \in Values :
                  (lastCall.v = v /\ ssa[v].kind = "Call" /\ ssa[v].callee = f)
                      => lastCall.status = summaryLog[f].status

\* C10 witness: the summary of function 1 was computed, a Reset followed,
\* and the call site 3 of function 1 was queried afterwards and returned.
SummaryReusedAfterReset ==
    /\ summaryLog[1].kept
    /\ stack = <<>>
    /\ lastCall.v = 3
    /\ visited[3] = summaryLog[1].status
    /\ visited[1] = Absent
---------------------------------------------------------------------------
(* Go types.  A type is the sequence of its constructors, outermost first: *)
(* <<"*", "User">> is *User, <<"[]", "*", "User">> is []*User,             *)
(* <<"map", "string", "*", "User">> is map[string]*User.  Two types are    *)
(* identical (types.Identical) when the sequences are equal.               *)

Named(n) == <<n>>
Pointer(t) == <<"*">> \o t
Slice(t) == <<"[]">> \o t
MapOf(k, t) == <<"map", k>> \o t
Basic(n) == <<n>>

\* A struct field: its name, whether it is exported, its type and its tag.
\* A tag is the sequence of its key:"value" pairs, a value the sequence of
\* its characters.
Field(name, exported, type, tag) ==
    [Name |-> name, Exported |-> exported, Type |-> type, Tag |-> tag]

StructType(fields, methods) ==
    [underlying |-> "struct", fields |-> fields, methods |-> methods]

\* protobuf:"1,opt"
TagPlain ==
    <<[key |-> "protobuf", value |-> <<"1", ",", "o", "p", "t">>]>>

\* protobuf:"2,opt,oneof"
TagOneOf ==
    <<[key |-> "protobuf",
       value |-> <<"2", ",", "o", "p", "t", ",", "o", "n", "e", "o", "f">>]>>

\* json:"oneof" protobuf:"3,oneofx"
TagNearOneOf ==
    <<[key |-> "json", value |-> <<"o", "n", "e", "o", "f">>],
      [key |-> "protobuf",
       value |-> <<"3", ",", "o", "n", "e", "o", "f", "x">>]>>

Marker == {"ProtoMessage"}

Interface == [underlying |-> "interface", fields |-> <<>>, methods |-> {}]

\* The named types of the analysed packages (testdata/src).  Service is
\* given fields of the types the responses have, and AuditResponse,
\* MixedResponse and Code are added for the shapes the test data lacks.
\* context.Context and the predeclared error are the types a handler's
\* signature names; app.Context and app.error are types of the analysed
\* package that bear the same names.
NamedTypes ==
    "GetUserRequest" :> StructType(<<>>, Marker)
    @@ "UserProfile" :> StructType(<<>>, Marker)
    @@ "User" :> StructType(<<>>, Marker)
    @@ "Timestamp" :> StructType(
          <<Field("Seconds", TRUE, Basic("int64"), <<>>),
            Field("Nanos", TRUE, Basic("int32"), <<>>)>>, Marker)
    @@ "GetUserResponse" :> StructType(
          <<Field("Profile", TRUE, Pointer(Named("UserProfile")), TagPlain)>>,
          Marker)
    @@ "ListUsersResponse" :> StructType(
          <<Field("Users", TRUE, Slice(Pointer(Named("User"))), TagPlain)>>,
          Marker)
    @@ "GetEventResponse" :> StructType(
          <<Field("EventDate", TRUE, Pointer(Named("Timestamp")), TagPlain),
            Field("OptionalDate", TRUE, Pointer(Named("Timestamp")), TagOneOf)>>,
          Marker)
    @@ "AuditResponse" :> StructType(
          <<Field("OptionalDate", TRUE, Pointer(Named("Timestamp")), TagOneOf),
            Field("Labels", TRUE, MapOf("string", Pointer(Named("User"))),
                  TagPlain),
            Field("Codes", TRUE, Slice(Basic("int32")), TagPlain)>>, Marker)
    @@ "MixedResponse" :> StructType(
          <<Field("state", FALSE, Pointer(Named("User")), <<>>),
            Field("Owner", TRUE, Pointer(Named("User")), TagNearOneOf),
            Field("Items", TRUE, Slice(Pointer(Named("User"))), TagOneOf)>>,
          Marker)
    @@ "Service" :> StructType(
          <<Field("Profile", TRUE, Pointer(Named("UserProfile")), TagPlain),
            Field("Owner", TRUE, Pointer(Named("User")), TagPlain),
            Field("Last", TRUE, Pointer(Named("Timestamp")), TagPlain)>>, {})
    @@ "Code" :> [underlying |-> "int32", fields |-> <<>>, methods |-> {}]
    @@ "context.Context" :> Interface
    @@ "app.Context" :> Interface
    @@ "error" :> Interface
    @@ "app.error" :> Interface

\* The type named n: Generated and Plain are the two structs whose fields
\* are the ones held in generated.
TypeNames == DOMAIN NamedTypes \cup {"Generated", "Plain"}

NamedType(n) ==
    IF n = "Generated" THEN StructType(generated, Marker)
    ELSE IF n = "Plain" THEN StructType(generated, {})
    ELSE NamedTypes[n]

isNamed(t) == Len(t) = 1 /\ t[1] \in TypeNames

isPointer(t) == t # <<>> /\ t[1] = "*"

isSlice(t) == t # <<>> /\ t[1] = "[]"

isMap(t) == t # <<>> /\ t[1] = "map"

\* The method set of *named has a method called ProtoMessage.
implementsProtoMessage(named) == "ProtoMessage" \in NamedType(named).methods

isProtoMessage(t) ==
    LET u == IF isPointer(t) THEN Tail(t) ELSE t
    IN  isNamed(u) /\ implementsProtoMessage(u[1])

elementIsProtoMessageNamedOnly(t) ==
    isSlice(t) /\ isNamed(Tail(t)) /\ implementsProtoMessage(Tail(t)[1])

elementIsProtoMessage(t) == isSlice(t) /\ isProtoMessage(Tail(t))

\* reflect.StructTag.Get: the value of the first pair with the key, or "".
RECURSIVE TagGet(_, _)
TagGet(tag, key) ==
    IF tag = <<>> THEN <<>>
    ELSE IF Head(tag).key = key THEN Head(tag).value
    ELSE TagGet(Tail(tag), key)

\* strings.Split(value, ","): cur is the segment being read.
RECURSIVE SplitComma(_, _)
SplitComma(value, cur) ==
    IF value = <<>> THEN <<cur>>
    ELSE IF Head(value) = "," THEN <<cur>> \o SplitComma(Tail(value), <<>>)
    ELSE SplitComma(Tail(value), Append(cur, Head(value)))

tagHasFlag(tag, key, part) ==
    IF tag = <<>> THEN FALSE
    ELSE LET value == TagGet(tag, key) IN
         IF value = <<>> THEN FALSE
         ELSE IF part = <<>> THEN TRUE
         ELSE \E k \in DOMAIN SplitComma(value, <<>>) :
                 SplitComma(value, <<>>)[k] = part

hasOneOfTag(tag) == tagHasFlag(tag, "protobuf", <<"o", "n", "e", "o", "f">>)

---------------------------------------------------------------------------
(* FieldRisk, FieldInfo and ProtoMessageInfo (model.go); the field         *)
(* classifier                                                              *)

FieldRiskSafe == "Safe"
FieldRiskMessagePointer == "MessagePointer"
FieldRiskRepeatedMessagePointer == "RepeatedMessagePointer"
FieldRiskImplicitRequirement == "ImplicitRequirement"

classifyFieldIgnoresOneOf(parent, field) ==
    LET fieldType == field.Type
        isRepeated == isSlice(fieldType)
    IN  [Name |-> field.Name,
         Parent |-> parent,
         Type |-> fieldType,
         IsPointer |-> isPointer(fieldType),
         IsRepeated |-> isRepeated,
         IsMap |-> isMap(fieldType),
         IsScalar |-> ~isPointer(fieldType) /\ ~isRepeated /\ ~isMap(fieldType),
         IsOptional |-> hasOneOfTag(field.Tag),
         IsProtoMessage |-> isProtoMessage(fieldType),
         Risk |-> IF isRepeated /\ elementIsProtoMessage(fieldType)
                  THEN FieldRiskRepeatedMessagePointer
                  ELSE IF isPointer(fieldType) /\ isProtoMessage(fieldType)
                  THEN FieldRiskMessagePointer
                  ELSE FieldRiskSafe]

classifyField(parent, field) ==
    LET fieldType == field.Type
        isRepeated == isSlice(fieldType)
        isOptional == hasOneOfTag(field.Tag)
    IN  [Name |-> field.Name,
         Parent |-> parent,
         Type |-> fieldType,
         IsPointer |-> isPointer(fieldType),
         IsRepeated |-> isRepeated,
         IsMap |-> isMap(fieldType),
         IsScalar |-> ~isPointer(fieldType) /\ ~isRepeated /\ ~isMap(fieldType),
         IsOptional |-> isOptional,
         IsProtoMessage |-> isProtoMessage(fieldType),
         Risk |-> IF isRepeated /\ elementIsProtoMessage(fieldType)
                  THEN FieldRiskRepeatedMessagePointer
                  ELSE IF isPointer(fieldType) /\ isProtoMessage(fieldType)
                          /\ ~isOptional
                  THEN FieldRiskMessagePointer
                  ELSE FieldRiskSafe]

RECURSIVE analyzeFieldsAllRisky(_, _, _, _)
analyzeFieldsAllRisky(named, fields, i, info) ==
    IF i >= Len(fields) THEN info
    ELSE LET field == fields[i + 1] IN
         IF ~field.Exported
         THEN analyzeFieldsAllRisky(named, fields, i + 1, info)
         ELSE LET meta == classifyField(named, field)
              IN  analyzeFieldsAllRisky(named, fields, i + 1,
                      [Type |-> info.Type,
                       Fields |-> Append(info.Fields, meta),
                       Risky |-> Append(info.Risky, meta),
                       FieldByID |-> (i :> meta) @@ info.FieldByID])

\* The loop of AnalyzeMessage over the struct's fields from index i
\* (counted from 0, as structType.Field(i)).
RECURSIVE analyzeFields(_, _, _, _)
analyzeFields(named, fields, i, info) ==
    IF i >= Len(fields) THEN info
    ELSE LET field == fields[i + 1] IN
         IF ~field.Exported THEN analyzeFields(named, fields, i + 1, info)
         ELSE LET meta == classifyField(named, field)
              IN  analyzeFields(named, fields, i + 1,
                      [Type |-> info.Type,
                       Fields |-> Append(info.Fields, meta),
                       Risky |-> IF meta.Risk # FieldRiskSafe
                                 THEN Append(info.Risky, meta)
                                 ELSE info.Risky,
                       FieldByID |-> (i :> meta) @@ info.FieldByID])

AnalyzeMessageReanalyzes(c, named) ==
    LET empty == [Type |-> named, Fields |-> <<>>, Risky |-> <<>>,
                  FieldByID |-> <<>>]
        start == IF named \in DOMAIN c THEN c[named] ELSE empty
        info == IF NamedType(named).underlying # "struct" THEN start
                ELSE analyzeFields(named, NamedType(named).fields, 0, start)
    IN  [info |-> info, cache |-> (named :> info) @@ c]

\* AnalyzeMessage: the info returned and the cache afterwards.  The cache is
\* a function from the names of the types analysed so far.
AnalyzeMessage(c, named) ==
    IF named \in DOMAIN c THEN [info |-> c[named], cache |-> c]
    ELSE LET empty == [Type |-> named, Fields |-> <<>>, Risky |-> <<>>,
                       FieldByID |-> <<>>]
             info == IF NamedType(named).underlying # "struct" THEN empty
                     ELSE analyzeFields(named, NamedType(named).fields, 0,
                                        empty)
         IN  [info |-> info, cache |-> (named :> info) @@ c]
---------------------------------------------------------------------------
(* The handler driver, analyzeHandler.  An instruction of a handler is a   *)
(* record: op is "Store" or something else, Addr the address stored to     *)
(* (its Go type in kind, the type of its base X in XType, the field index  *)
(* in Field), Val the value stored.                                        *)

FieldAddr(xType, field) == [kind |-> "FieldAddr", XType |-> xType, Field |-> field]
IndexAddr(xType) == [kind |-> "IndexAddr", XType |-> xType, Field |-> 0]
AllocAddr == [kind |-> "Alloc", XType |-> <<>>, Field |-> 0]

StoreInstr(addr, val) == [op |-> "Store", Addr |-> addr, Val |-> val]
ReturnStmt == [op |-> "Return", Addr |-> AllocAddr, Val |-> NoValue]
OtherStmt == [op |-> "Other", Addr |-> AllocAddr, Val |-> NoValue]

isResponsePointerAnyStruct(t, respNamed) ==
    /\ isPointer(t)
    /\ isNamed(Tail(t))

\* isResponsePointer reports whether t is *respNamed.
isResponsePointer(t, respNamed) ==
    /\ isPointer(t)
    /\ isNamed(Tail(t))
    /\ Tail(t) = Named(respNamed)

\* matchRepeatedSliceField: <<fi>> for the first repeated-message field of
\* the response whose type is identical to t, <<>> when there is none.
matchRepeatedSliceFieldAnyType(t, fields, k) ==
    LET repeated == {j \in k..Len(fields) :
                        fields[j].Risk = FieldRiskRepeatedMessagePointer}
    IN  IF repeated = {} THEN <<>>
        ELSE <<fields[CHOOSE j \in repeated : \A i \in repeated : j <= i]>>

RECURSIVE matchRepeatedSliceField(_, _, _)
matchRepeatedSliceField(t, fields, k) ==
    IF k > Len(fields) THEN <<>>
    ELSE IF fields[k].Risk # FieldRiskRepeatedMessagePointer
    THEN matchRepeatedSliceField(t, fields, k + 1)
    ELSE IF fields[k].Type = t THEN <<fields[k]>>
    ELSE matchRepeatedSliceField(t, fields, k + 1)

\* msgInfo == nil || len(msgInfo.Risky) == 0.  AnalyzeMessage returned a
\* descriptor, so the first test is false.
nothingToCheckOnlyNil(info) == FALSE

nothingToCheck(info) == Len(info.Risky) = 0

\* Only scalar message-pointer fields are treated as direct-field risks.
isDirectFieldRiskAny(risk) == TRUE

isDirectFieldRisk(risk) == risk = FieldRiskMessagePointer

\* nilAnalyzer.Reset(): the analyzer afterwards
resetAnalyzerSkipped(m) == m

resetAnalyzer(m) ==
    LET r == ResetMaps(m.visited, m.funcSummary)
    IN  [m EXCEPT !.visited = r.visited,
                  !.funcSummary = r.funcSummary,
                  !.evals = [x \in DOMAIN m.evals |-> 0]]

\* nilAnalyzer.Reset() followed by nilAnalyzer.ValueNilStatus(v)
resetAndQuery(m, g, F, v) == ValueNilStatus(resetAnalyzer(m), g, F, v)

\* The two reports of analyzeHandler: the message and what fills its verbs,
\* at the position of the store.  The report of an element does not name the
\* response type.
FieldDiagnostic(resp, field, h, at) ==
    [kind |-> "potential nil field", Resp |-> resp, Field |-> field,
     Service |-> h.ServiceName, Method |-> h.MethodName, at |-> at]

ElementDiagnostic(field, h, at) ==
    [kind |-> "potential nil element", Resp |-> "", Field |-> field,
     Service |-> h.ServiceName, Method |-> h.MethodName, at |-> at]

Skipped(m) ==
    [machine |-> m, diags |-> <<>>, queried |-> FALSE, start |-> <<>>]

checkAndReportTwice(m, g, F, val, diag) ==
    LET m1 == resetAndQuery(m, g, F, val)
    IN  [machine |-> m1,
         diags |-> IF IsMaybeNil(m1.ret) THEN <<diag, diag>> ELSE <<>>,
         queried |-> TRUE,
         start |-> <<resetAnalyzer(m)>>]

\* The check of a stored value and the report that follows it.  start is
\* the analyzer as the query finds it, after the Reset.
checkAndReport(m, g, F, val, diag) ==
    LET m1 == resetAndQuery(m, g, F, val)
    IN  [machine |-> m1,
         diags |-> IF IsMaybeNil(m1.ret) THEN <<diag>> ELSE <<>>,
         queried |-> TRUE,
         start |-> <<resetAnalyzer(m)>>]

\* The body of analyzeHandler's loop for the instruction instr at position
\* at: the analyzer afterwards, the diagnostics reported, and whether
\* IsMaybeNil was called.
scanInstr(m, g, F, info, respNamed, h, at, instr) ==
    IF instr.op # "Store" THEN Skipped(m)
    ELSE CASE instr.Addr.kind = "FieldAddr" ->
                IF ~isResponsePointer(instr.Addr.XType, respNamed)
                THEN Skipped(m)
                ELSE IF instr.Addr.Field \notin DOMAIN info.FieldByID
                THEN Skipped(m)
                ELSE LET fieldInfo == info.FieldByID[instr.Addr.Field] IN
                     IF ~isDirectFieldRisk(fieldInfo.Risk) THEN Skipped(m)
                     ELSE checkAndReport(m, g, F, instr.Val,
                              FieldDiagnostic(respNamed, fieldInfo.Name, h,
                                              at))
           [] instr.Addr.kind = "IndexAddr" ->
                LET match == matchRepeatedSliceField(instr.Addr.XType,
                                                     info.Fields, 1) IN
                IF match = <<>> THEN Skipped(m)
                ELSE IF match[1].Risk # FieldRiskRepeatedMessagePointer
                THEN Skipped(m)
                ELSE checkAndReport(m, g, F, instr.Val,
                         ElementDiagnostic(match[1].Name, h, at))
           [] OTHER -> Skipped(m)

\* The position of the first instruction at or after <<b, i>>, <<0, 0>>
\* when the blocks are exhausted.
RECURSIVE seekInstr(_, _, _)
seekInstr(blocks, b, i) ==
    IF b > Len(blocks) THEN <<0, 0>>
    ELSE IF i > Len(blocks[b]) THEN seekInstr(blocks, b + 1, 1)
    ELSE <<b, i>>

\* The response type of the handler, its pointer stripped.
respTypeOf(h) ==
    IF isPointer(h.ResponseType) THEN Tail(h.ResponseType) ELSE h.ResponseType

\* analyzeHandler up to its loop.
EnterHandler ==
    /\ hpc = "idle"
    /\ IF ~isNamed(respTypeOf(handler))
       THEN /\ hpc' = "done"
            /\ UNCHANGED <<msgInfo, cache, pos>>
       ELSE LET r == AnalyzeMessage(cache, respTypeOf(handler)[1])
                first == seekInstr(handler.Function.Blocks, 1, 1)
            IN  /\ msgInfo' = <<r.info>>
                /\ cache' = r.cache
                /\ pos' = first
                /\ hpc' = IF nothingToCheck(r.info) \/ first = <<0, 0>>
                          THEN "done" ELSE "scan"
    /\ UNCHANGED <<ssa, fns, visited, funcSummary, stack, ret, evals, steps,
                   lastCall, returned, answered, summaryLog, joinVars, handler,
                   diags, scanned, queries, progVars>>

\* One turn of analyzeHandler's loop.
ScanInstr ==
    /\ hpc = "scan"
    /\ LET blocks == handler.Function.Blocks
           instr == blocks[pos[1]][pos[2]]
           out == scanInstr(Machine, ssa, fns, msgInfo[1],
                            respTypeOf(handler)[1], handler, pos, instr)
           next == seekInstr(blocks, pos[1], pos[2] + 1)
       IN  /\ SetMachine(out.machine)
           /\ diags' = diags \o out.diags
           /\ queries' = queries + (IF out.queried THEN 1 ELSE 0)
           /\ scanned' = <<[at |-> pos, instr |-> instr,
                            emitted |-> Len(out.diags),
                            queried |-> out.queried,
                            before |-> Machine,
                            start |-> out.start]>>
           /\ pos' = next
           /\ hpc' = IF next = <<0, 0>> THEN "done" ELSE "scan"
    /\ UNCHANGED <<ssa, fns, returned, answered, summaryLog, joinVars, handler,
                   msgInfo, cache, progVars>>

---------------------------------------------------------------------------
(* The handlers analysed: one handler, its response type and body drawn *)

MaxStores == 2     \* stores in the body of a generated handler

\* The values of a handler: a nil constant, an allocation, a parameter, a
\* phi that merges the result of buildProfileMaybeNil with the allocation,
\* and the calls of the two helpers of complexflow.
HandlerValues ==
    <<ConstNil, AllocInstr, ParameterInstr, Phi(<<5, 2>>), CallInstr(1),
      CallInstr(2)>>

\* The values stored: one of each status (DefinitelyNil, Unknown, MaybeNil,
\* NotNil); the allocation and the first call are operands of the phi.
StoredValues == {1, 3, 4, 6}

ResponseTypes ==
    {"GetUserResponse", "ListUsersResponse", "GetEventResponse",
     "AuditResponse", "MixedResponse"}

\* The addresses a generated store may have: a field of the response or of
\* the receiver, an element of a slice, a local.
StoreAddrs(resp) ==
    {FieldAddr(Pointer(Named(resp)), i) : i \in 0..2}
        \cup {FieldAddr(Pointer(Named("Service")), 0)}
        \cup {IndexAddr(Slice(Pointer(Named("User")))),
              IndexAddr(Slice(Basic("int32"))),
              IndexAddr(Slice(MapOf("string", Pointer(Named("User")))))}
        \cup {AllocAddr}

Stores(resp) ==
    {StoreInstr(a, v) : a \in StoreAddrs(resp), v \in StoredValues}

\* The first store is in the entry block, the others and the return in a
\* second block.
BlocksOf(instrs) ==
    IF Len(instrs) = 0 THEN <<<<ReturnStmt>>>>
    ELSE <<<<instrs[1]>>, Tail(instrs) \o <<ReturnStmt>>>>

Bodies(resp) ==
    {BlocksOf(s) : s \in UNION {[1..n -> Stores(resp)] : n \in 0..MaxStores}}

InitDriver ==
    /\ ssa = HandlerValues
    /\ fns = <<buildProfileMaybeNil, buildProfileNonNil>>
    /\ AnalyzerInit
    /\ JoinIdle
    /\ \E resp \in ResponseTypes : \E body \in Bodies(resp) :
          handler = [Function |-> [Blocks |-> body],
                     ResponseType |-> Pointer(Named(resp)),
                     ServiceName |-> "Service",
                     MethodName |-> "Handle"]
    /\ hpc = "idle"
    /\ pos = <<1, 1>>
    /\ msgInfo = <<>>
    /\ cache = <<>>
    /\ diags = <<>>
    /\ scanned = <<>>
    /\ queries = 0
    /\ srcFuncs = <<>>
    /\ fnIdx = 0
    /\ generated = <<>>
    /\ runs = <<>>

NextDriver == EnterHandler \/ ScanInstr

SpecDriver == InitDriver /\ [][NextDriver]_vars

---------------------------------------------------------------------------
(* Claims about the driver, checked under SpecDriver *)

NewNilFlowAnalyzerStale(g, F) ==
    [visited |-> [v \in DOMAIN g |-> Absent],
     funcSummary |-> [f \in DOMAIN F |-> NilStatusNotNil],
     stack |-> <<>>, ret |-> NilStatusUnknown,
     evals |-> [v \in DOMAIN g |-> 0], steps |-> 0, lastCall |-> NoCall]

\* NewNilFlowAnalyzer: both maps empty.
NewNilFlowAnalyzer(g, F) ==
    [visited |-> [v \in DOMAIN g |-> Absent],
     funcSummary |-> [f \in DOMAIN F |-> Absent],
     stack |-> <<>>, ret |-> NilStatusUnknown,
     evals |-> [v \in DOMAIN g |-> 0], steps |-> 0, lastCall |-> NoCall]

\* The status a new analyzer computes for value v of the handler.
StatusOf(v) == ValueNilStatus(NewNilFlowAnalyzer(ssa, fns), ssa, fns, v).ret

\* The instruction scanned last is a store through a field selection on a
\* base of type pointer-to-R whose field the descriptor classifies
\* MessagePointer.
ScannedMessagePointerStore ==
    /\ scanned # <<>>
    /\ msgInfo # <<>>
    /\ scanned[1].instr.op = "Store"
    /\ scanned[1].instr.Addr.kind = "FieldAddr"
    /\ scanned[1].instr.Addr.XType = Pointer(respTypeOf(handler))
    /\ scanned[1].instr.Addr.Field \in DOMAIN msgInfo[1].FieldByID
    /\ msgInfo[1].FieldByID[scanned[1].instr.Addr.Field].Risk
          = FieldRiskMessagePointer

\* C1: for every store in a handler whose address is a field selection on a
\* base of type pointer-to-R and whose field is classified MessagePointer,
\* analyzeHandler emits exactly one "potential nil field" diagnostic, naming
\* that field, if the status of the stored value is MaybeNil, DefinitelyNil
\* or Unknown, and emits no diagnostic if it is NotNil.
FieldStoreReportedIffNotNotNil ==
    ScannedMessagePointerStore =>
        LET s == scanned[1]
            status == StatusOf(s.instr.Val)
            field == msgInfo[1].FieldByID[s.instr.Addr.Field]
        IN  /\ status \in {NilStatusMaybeNil, NilStatusDefinitelyNil,
                           NilStatusUnknown}
                  => /\ s.emitted = 1
                     /\ diags # <<>>
                     /\ diags[Len(diags)] =
                           FieldDiagnostic(respTypeOf(handler)[1],
                                           field.Name, handler, s.at)
            /\ status = NilStatusNotNil => s.emitted = 0

\* C1 witness: a parameter, whose status is Unknown, was stored into
\* GetUserResponse.Profile and reported once.
UnknownStoredIntoProfileReported ==
    /\ ScannedMessagePointerStore
    /\ scanned[1].instr =
          StoreInstr(FieldAddr(Pointer(Named("GetUserResponse")), 0), 3)
    /\ StatusOf(3) = NilStatusUnknown
    /\ scanned[1].emitted = 1

\* C2: no diagnostic the driver emits names a field whose risk is Safe,
\* whatever the handler stores, the nil constant included.
SafeFieldNeverReported ==
    \A k \in DOMAIN diags :
        /\ msgInfo # <<>>
        /\ \E j \in DOMAIN msgInfo[1].Fields :
              msgInfo[1].Fields[j].Name = diags[k].Field
        /\ \A j \in DOMAIN msgInfo[1].Fields :
              msgInfo[1].Fields[j].Name = diags[k].Field
                  => msgInfo[1].Fields[j].Risk # FieldRiskSafe

\* C2 witness: the nil constant was stored into the oneof field
\* GetEventResponse.OptionalDate, which is Safe, and nothing was reported.
NilStoredIntoSafeFieldUnreported ==
    /\ scanned # <<>>
    /\ msgInfo # <<>>
    /\ scanned[1].instr =
          StoreInstr(FieldAddr(Pointer(Named("GetEventResponse")), 1), 1)
    /\ ssa[1] = ConstNil
    /\ msgInfo[1].FieldByID[1].Risk = FieldRiskSafe
    /\ scanned[1].emitted = 0

\* The handler's body has no store to a field of the response or to an
\* element of one of its repeated fields.
NoResponseStores ==
    \A b \in DOMAIN handler.Function.Blocks :
        \A i \in DOMAIN handler.Function.Blocks[b] :
            LET instr == handler.Function.Blocks[b][i] IN
            instr.op = "Store" =>
                /\ ~(instr.Addr.kind = "FieldAddr"
                        /\ instr.Addr.XType = Pointer(respTypeOf(handler)))
                /\ instr.Addr.kind # "IndexAddr"

\* C3: a handler with zero stores to the response yields one "implicit nil
\* field" diagnostic per risky field of the response type.
ImplicitNilReportedPerRiskyField ==
    (hpc = "done" /\ msgInfo # <<>> /\ NoResponseStores) =>
        \A j \in DOMAIN msgInfo[1].Risky :
            Cardinality({k \in DOMAIN diags :
                            /\ diags[k].kind = "implicit nil field"
                            /\ diags[k].Field = msgInfo[1].Risky[j].Name}) = 1

\* The descriptor has neither a MessagePointer nor a RepeatedMessagePointer
\* field.
NoRiskyField(info) ==
    \A j \in DOMAIN info.Fields :
        info.Fields[j].Risk \notin {FieldRiskMessagePointer,
                                    FieldRiskRepeatedMessagePointer}

\* C8: for a handler whose response descriptor has no risky field the driver
\* emits no diagnostic and makes no nil-flow query, whatever the body stores:
\* it returns before it examines an instruction.
NoRiskyFieldNoDiagnosticNoQuery ==
    (msgInfo # <<>> /\ NoRiskyField(msgInfo[1])) =>
        /\ diags = <<>>
        /\ queries = 0
        /\ scanned = <<>>

\* C8 witness: the handler of an AuditResponse, none of whose fields is
\* risky, stores the nil constant into its field OptionalDate and is done.
NilStoredByHandlerWithoutRiskyField ==
    /\ hpc = "done"
    /\ msgInfo # <<>>
    /\ NoRiskyField(msgInfo[1])
    /\ handler.Function.Blocks[1][1] =
          StoreInstr(FieldAddr(Pointer(Named("AuditResponse")), 0), 1)
    /\ ssa[1] = ConstNil
    /\ diags = <<>>

---------------------------------------------------------------------------
(* The handler recognizer, DetectHandlerFromFunc.  A function is its name, *)
(* its signature (Recv is <<>> or <<the receiver's type>>, Params and      *)
(* Results the sequences of the parameter and result types) and its        *)
(* blocks.                                                                 *)

Func(name, recv, params, results, blocks) ==
    [Name |-> name, Recv |-> recv, Params |-> params, Results |-> results,
     Blocks |-> blocks]

\* named.Obj().Name()
ObjName(n) ==
    CASE n = "context.Context" -> "Context"
      [] n = "app.Context" -> "Context"
      [] n = "app.error" -> "error"
      [] OTHER -> n

\* named.Obj().Pkg(): <<>> is nil, else <<the package path>>
ObjPkg(n) ==
    CASE n = "context.Context" -> <<"context">>
      [] n = "error" -> <<>>
      [] OTHER -> <<"app">>

\* receiverNamedType: <<>> is nil, else <<the name of the named type>>
receiverNamedType(t) ==
    LET u == IF isPointer(t) THEN Tail(t) ELSE t
    IN  IF isNamed(u) THEN u ELSE <<>>

isContextType(t) ==
    LET named == receiverNamedType(t)
    IN  IF named = <<>> THEN FALSE
        ELSE IF ObjPkg(named[1]) = <<>> THEN FALSE
        ELSE ObjPkg(named[1]) = <<"context">> /\ ObjName(named[1]) = "Context"

isErrorType(t) ==
    LET named == receiverNamedType(t)
    IN  IF named = <<>> THEN FALSE
        ELSE ObjPkg(named[1]) = <<>> /\ ObjName(named[1]) = "error"

HandlerInfo(fn, serviceType, req, resp) ==
    [Function |-> fn, ReceiverType |-> serviceType, RequestType |-> req,
     ResponseType |-> resp, ServiceName |-> ObjName(serviceType),
     MethodName |-> fn.Name]

\* DetectHandlerFromFunc: <<>> is nil, else <<the HandlerInfo>>
DetectHandlerFromFunc(fn) ==
    IF fn.Recv = <<>> THEN <<>>
    ELSE IF Len(fn.Params) < 2 \/ Len(fn.Results) # 2 THEN <<>>
    ELSE IF ~isContextType(fn.Params[1]) THEN <<>>
    ELSE IF ~isErrorType(fn.Results[2]) THEN <<>>
    ELSE IF ~isProtoMessage(fn.Params[2]) \/ ~isProtoMessage(fn.Results[1])
    THEN <<>>
    ELSE IF receiverNamedType(fn.Recv[1]) = <<>> THEN <<>>
    ELSE <<HandlerInfo(fn, receiverNamedType(fn.Recv[1])[1], fn.Params[2],
                       fn.Results[1])>>

\* One turn of run's loop over res.SrcFuncs, up to the call of
\* analyzeHandler.
DetectNext ==
    /\ hpc = "run"
    /\ fnIdx <= Len(srcFuncs)
    /\ LET h == DetectHandlerFromFunc(srcFuncs[fnIdx])
       IN  IF h = <<>>
           THEN /\ fnIdx' = fnIdx + 1
                /\ UNCHANGED <<handler, hpc>>
           ELSE /\ handler' = h[1]
                /\ hpc' = "idle"
                /\ UNCHANGED fnIdx
    /\ UNCHANGED <<ssa, fns, visited, funcSummary, stack, ret, evals, steps,
                   lastCall, returned, answered, summaryLog, joinVars, pos,
                   msgInfo, cache, diags, scanned, queries, srcFuncs,
                   generated, runs>>

---------------------------------------------------------------------------
(* The signatures recognized: one function, its signature drawn *)

MaxArity == 3      \* parameters, and results, of a generated signature

RecvTypes == {<<>>, <<Pointer(Named("Service"))>>, <<Named("Service")>>}

CtxParamTypes ==
    {Named("context.Context"), Pointer(Named("context.Context")),
     Named("app.Context"), Pointer(Named("GetUserRequest")), Named("error")}

ReqParamTypes ==
    {Pointer(Named("GetUserRequest")), Named("GetUserRequest"),
     Pointer(Named("Service")), Named("context.Context"),
     Slice(Pointer(Named("User"))), Basic("int32")}

RespResultTypes ==
    {Pointer(Named("GetUserResponse")), Named("GetUserResponse"),
     Pointer(Named("Service")), Named("error"), Basic("int32")}

ErrResultTypes ==
    {Named("error"), Pointer(Named("error")), Named("app.error"),
     Pointer(Named("GetUserResponse")), Basic("int32")}

\* The first n of: a, b, and int32 from the third on.
TypeList(n, a, b) ==
    [i \in 1..n |-> IF i = 1 THEN a ELSE IF i = 2 THEN b ELSE Basic("int32")]

TypeLists(first, second) ==
    {TypeList(n, a, b) : n \in 0..MaxArity, a \in first, b \in second}

Signatures ==
    {Func("Handle", recv, params, results, <<>>) :
        recv \in RecvTypes,
        params \in TypeLists(CtxParamTypes, ReqParamTypes),
        results \in TypeLists(RespResultTypes, ErrResultTypes)}

InitDetect ==
    /\ ssa = <<>>
    /\ fns = <<>>
    /\ AnalyzerInit
    /\ JoinIdle
    /\ handler = <<>>
    /\ hpc = "run"
    /\ pos = <<1, 1>>
    /\ msgInfo = <<>>
    /\ cache = <<>>
    /\ diags = <<>>
    /\ scanned = <<>>
    /\ queries = 0
    /\ \E fn \in Signatures : srcFuncs = <<fn>>
    /\ fnIdx = 1
    /\ generated = <<>>
    /\ runs = <<>>

SpecDetect == InitDetect /\ [][DetectNext]_vars

\* The shape rule: a receiver; at least two parameters, the first the
\* context type, the second a pointer to a message type; exactly two
\* results, the first a pointer to a message type, the second the
\* predeclared error type.
HandlerShape(fn) ==
    /\ fn.Recv # <<>>
    /\ Len(fn.Params) >= 2
    /\ fn.Params[1] = Named("context.Context")
    /\ isPointer(fn.Params[2])
    /\ isProtoMessage(fn.Params[2])
    /\ Len(fn.Results) = 2
    /\ isPointer(fn.Results[1])
    /\ isProtoMessage(fn.Results[1])
    /\ fn.Results[2] = Named("error")

\* C12: a function is recognized as a handler if and only if it has the
\* handler shape.
RecognizedIffHandlerShape ==
    /\ hpc = "idle" => HandlerShape(srcFuncs[1])
    /\ fnIdx = 2 => ~HandlerShape(srcFuncs[1])

---------------------------------------------------------------------------
(* run: the handlers of a package analysed one after the other by the same *)
(* two analyzers                                                           *)

\* analyzeHandler has returned: run's loop moves to the next function.
FinishHandler ==
    /\ hpc = "done"
    /\ fnIdx <= Len(srcFuncs)
    /\ fnIdx' = fnIdx + 1
    /\ hpc' = "run"
    /\ UNCHANGED <<ssa, fns, visited, funcSummary, stack, ret, evals, steps,
                   lastCall, returned, answered, summaryLog, joinVars,
                   handler, pos, msgInfo, cache, diags, scanned, queries,
                   srcFuncs, generated, runs>>

MaxHandlers == 2   \* functions of a generated package

HandlerSignature(name, resp, blocks) ==
    Func(name, <<Pointer(Named("Service"))>>,
         <<Named("context.Context"), Pointer(Named("GetUserRequest"))>>,
         <<Pointer(Named(resp)), Named("error")>>, blocks)

\* resp.<field i> = <value v>
AssignField(resp, i, v) == StoreInstr(FieldAddr(Pointer(Named(resp)), i), v)

\* The functions of the test data, their stored values taken from
\* HandlerValues; a value of a kind ValueNilStatus does not know, such as
\* make([]*User, 1), is value 3.
GetUserExplicit ==
    HandlerSignature("GetUserExplicit", "GetUserResponse",
        <<<<AssignField("GetUserResponse", 0, 1), ReturnStmt>>>>)

GetUserImplicit ==
    HandlerSignature("GetUserImplicit", "GetUserResponse", <<<<ReturnStmt>>>>)

GetUserIfElseMaybe ==
    HandlerSignature("GetUserIfElseMaybe", "GetUserResponse",
        <<<<OtherStmt>>, <<AssignField("GetUserResponse", 0, 4), ReturnStmt>>>>)

GetUserSubcallSafe ==
    HandlerSignature("GetUserSubcallSafe", "GetUserResponse",
        <<<<AssignField("GetUserResponse", 0, 6), ReturnStmt>>>>)

GetUserSubcallMaybe ==
    HandlerSignature("GetUserSubcallMaybe", "GetUserResponse",
        <<<<AssignField("GetUserResponse", 0, 5), ReturnStmt>>>>)

ListUsers ==
    HandlerSignature("ListUsers", "ListUsersResponse",
        <<<<AssignField("ListUsersResponse", 0, 3),
            StoreInstr(IndexAddr(Slice(Pointer(Named("User")))), 5),
            ReturnStmt>>>>)

GetEventExplicit ==
    HandlerSignature("GetEventExplicit", "GetEventResponse",
        <<<<AssignField("GetEventResponse", 0, 1),
            AssignField("GetEventResponse", 1, 1), ReturnStmt>>>>)

cond ==
    Func("cond", <<>>, <<>>, <<Basic("bool")>>, <<<<ReturnStmt>>>>)

SrcFuncs ==
    {GetUserExplicit, GetUserImplicit, GetUserIfElseMaybe, GetUserSubcallSafe,
     GetUserSubcallMaybe, ListUsers, GetEventExplicit, cond}

InitRun ==
    /\ ssa = HandlerValues
    /\ fns = <<buildProfileMaybeNil, buildProfileNonNil>>
    /\ AnalyzerInit
    /\ JoinIdle
    /\ handler = <<>>
    /\ hpc = "run"
    /\ pos = <<1, 1>>
    /\ msgInfo = <<>>
    /\ cache = <<>>
    /\ diags = <<>>
    /\ scanned = <<>>
    /\ queries = 0
    /\ srcFuncs \in UNION {[1..n -> SrcFuncs] : n \in 1..MaxHandlers}
    /\ fnIdx = 1
    /\ generated = <<>>
    /\ runs = <<>>

NextRun == DetectNext \/ EnterHandler \/ ScanInstr \/ FinishHandler

SpecRun == InitRun /\ [][NextRun]_vars

\* C11: whenever the driver starts an IsMaybeNil query for a store, the
\* value cache is empty, whatever earlier stores and earlier handlers left
\* in it, and the procedure summaries are the ones that were there before.
QueryStartsWithEmptyCache ==
    (scanned # <<>> /\ scanned[1].queried) =>
        /\ \A v \in Values : scanned[1].start[1].visited[v] = Absent
        /\ scanned[1].start[1].funcSummary = scanned[1].before.funcSummary

\* C11 witness: the second handler of the package started a query when the
\* first had left entries in the value cache and a summary.
SecondHandlerQueriedAfterFirst ==
    /\ fnIdx = 2
    /\ scanned # <<>>
    /\ scanned[1].queried
    /\ scanned[1].at = <<1, 1>>
    /\ \E v \in Values : scanned[1].before.visited[v] # Absent
    /\ \E f \in Funcs : scanned[1].before.funcSummary[f] # Absent
    /\ \E f \in Funcs : scanned[1].start[1].funcSummary[f] # Absent

---------------------------------------------------------------------------
(* The field classifier on its own: AnalyzeMessage called on the named     *)
(* types of a package whose struct fields are drawn                        *)

MaxFields == 2   \* fields of the drawn struct

\* protobuf:"4,oneof,opt"
TagOneOfFirst ==
    <<[key |-> "protobuf",
       value |-> <<"4", ",", "o", "n", "e", "o", "f", ",", "o", "p", "t">>]>>

\* Field types whose risk can depend on the tag, and the others.
MessageFieldTypes ==
    {Pointer(Named("User")), Slice(Pointer(Named("User")))}

OtherFieldTypes ==
    {Basic("int32"), Named("User"), Pointer(Named("Code")),
     Slice(Named("User")), Slice(Basic("int32")),
     MapOf("string", Pointer(Named("User")))}

FieldTags == {<<>>, TagPlain, TagOneOf, TagOneOfFirst, TagNearOneOf}

FieldNames == <<"A", "B", "C">>

\* The fields a struct can have at position i: exported ones of a message
\* field type with any tag or of another type with or without oneof, and
\* one that is not exported.
FieldsAt(i) ==
    {Field(FieldNames[i], TRUE, t, tag) :
        t \in MessageFieldTypes, tag \in FieldTags}
    \cup {Field(FieldNames[i], TRUE, t, tag) :
        t \in OtherFieldTypes, tag \in {TagPlain, TagOneOf}}
    \cup {Field(FieldNames[i], FALSE, Pointer(Named("User")), TagPlain)}

\* The structs of n fields.
RECURSIVE StructsOf(_)
StructsOf(n) ==
    IF n = 0 THEN {<<>>}
    ELSE {Append(fs, f) : fs \in StructsOf(n - 1), f \in FieldsAt(n)}

StructFields == UNION {StructsOf(n) : n \in 0..MaxFields}

\* The named types AnalyzeMessage is called on.
AnalyzedTypes == {"Generated", "Plain", "Code"}

\* p.AnalyzeMessage(named); scanned observes the type asked for and whether
\* the cache had it.
Analyze ==
    /\ hpc = "classify"
    /\ \E named \in AnalyzedTypes :
          LET r == AnalyzeMessage(cache, named)
          IN  /\ msgInfo' = <<r.info>>
              /\ cache' = r.cache
              /\ scanned' = <<[named |-> named,
                               hit |-> named \in DOMAIN cache]>>
    /\ UNCHANGED <<ssa, fns, visited, funcSummary, stack, ret, evals, steps,
                   lastCall, returned, answered, summaryLog, joinVars,
                   handler, hpc, pos, diags, queries, progVars>>

InitClassify ==
    /\ ssa = <<>>
    /\ fns = <<>>
    /\ AnalyzerInit
    /\ JoinIdle
    /\ handler = <<>>
    /\ hpc = "classify"
    /\ pos = <<1, 1>>
    /\ msgInfo = <<>>
    /\ cache = <<>>
    /\ diags = <<>>
    /\ scanned = <<>>
    /\ queries = 0
    /\ srcFuncs = <<>>
    /\ fnIdx = 0
    /\ generated \in StructFields
    /\ runs = <<>>

SpecClassify == InitClassify /\ [][Analyze]_vars

\* C13: the descriptor of a type that is not a struct, or that has no
\* ProtoMessage method on its pointer form, is empty: no fields, no risky
\* fields, an empty index map.
UnmarkedTypeGetsEmptyDescriptor ==
    (/\ msgInfo # <<>>
     /\ \/ NamedType(msgInfo[1].Type).underlying # "struct"
        \/ "ProtoMessage" \notin NamedType(msgInfo[1].Type).methods) =>
        /\ msgInfo[1].Fields = <<>>
        /\ msgInfo[1].Risky = <<>>
        /\ msgInfo[1].FieldByID = <<>>

\* The risk a field of type t with tag tag has by the priority rule; of the
\* tags drawn, TagOneOf and TagOneOfFirst are the ones tagged oneof.
IsMessageName(t) == Len(t) = 1 /\ t[1] \in {"User", "UserProfile", "Timestamp"}

StripPointer(t) == IF t # <<>> /\ t[1] = "*" THEN Tail(t) ELSE t

RiskRule(t, tag) ==
    IF t[1] = "[]" /\ IsMessageName(StripPointer(Tail(t)))
    THEN "RepeatedMessagePointer"
    ELSE IF t[1] = "*" /\ IsMessageName(Tail(t))
            /\ tag \notin {TagOneOf, TagOneOfFirst}
    THEN "MessagePointer"
    ELSE "Safe"

\* C14: the risk of every exported field of a message is the one the
\* priority rule gives for the field's own type and tag, whatever the other
\* fields are; fields that are not exported have no entry.
RiskFromOwnTypeAndTag ==
    (msgInfo # <<>> /\ msgInfo[1].Type = "Generated") =>
        /\ DOMAIN msgInfo[1].FieldByID =
              {i - 1 : i \in {j \in 1..Len(generated) : generated[j].Exported}}
        /\ \A i \in 1..Len(generated) :
              generated[i].Exported =>
                 msgInfo[1].FieldByID[i - 1].Risk =
                    RiskRule(generated[i].Type, generated[i].Tag)

\* C14 witness: a message with a repeated message field tagged oneof next
\* to a message pointer tagged oneof has been classified.
OneOfSliceAndOneOfPointerClassified ==
    /\ msgInfo # <<>>
    /\ msgInfo[1].Type = "Generated"
    /\ Len(generated) = 2
    /\ generated[1].Exported
    /\ generated[1].Type = Slice(Pointer(Named("User")))
    /\ generated[1].Tag = TagOneOf
    /\ generated[2].Exported
    /\ generated[2].Type = Pointer(Named("User"))
    /\ generated[2].Tag = TagOneOf
    /\ msgInfo[1].FieldByID[0].Risk = FieldRiskRepeatedMessagePointer
    /\ msgInfo[1].FieldByID[1].Risk = FieldRiskSafe

---------------------------------------------------------------------------
(* Claims about optional fields, element stores and merged values, checked *)
(* under SpecDriver                                                        *)

\* Field i (counted from 0) of the struct resp as declared: an exported
\* pointer to a message, tagged oneof or not.
DeclaredMessagePointer(resp, i) ==
    /\ i + 1 \in DOMAIN NamedTypes[resp].fields
    /\ LET f == NamedTypes[resp].fields[i + 1]
       IN  /\ f.Exported
           /\ Len(f.Type) = 2
           /\ f.Type[1] = "*"
           /\ "ProtoMessage" \in NamedTypes[f.Type[2]].methods

DeclaredOneOf(resp, i) ==
    /\ DeclaredMessagePointer(resp, i)
    /\ NamedTypes[resp].fields[i + 1].Tag = TagOneOf

DeclaredNonOptional(resp, i) ==
    /\ DeclaredMessagePointer(resp, i)
    /\ NamedTypes[resp].fields[i + 1].Tag # TagOneOf

\* The response struct of the handler.
RespName == handler.ResponseType[2]

\* The stores of the handler's body, in order.
RECURSIVE Flatten(_)
Flatten(blocks) ==
    IF blocks = <<>> THEN <<>> ELSE Head(blocks) \o Flatten(Tail(blocks))

BodyStores == SelectSeq(Flatten(handler.Function.Blocks),
                        LAMBDA i : i.op = "Store")

NilAssign(i) == StoreInstr(FieldAddr(Pointer(Named(RespName)), i), 1)

\* C15: a nil stored into a message-pointer field tagged oneof is never
\* reported; a handler that assigns nil to a non-optional message pointer
\* and to a oneof one gets exactly one diagnostic, naming the non-optional
\* field; a handler of a response whose only message pointers are oneof gets
\* none.
OneOfFieldNeverReported ==
    /\ (/\ scanned # <<>>
        /\ ssa[1] = ConstNil
        /\ \E i \in 0..2 : /\ DeclaredOneOf(RespName, i)
                           /\ scanned[1].instr = NilAssign(i))
          => scanned[1].emitted = 0
    /\ \A i, j \in 0..2 :
          (/\ hpc = "done"
           /\ DeclaredNonOptional(RespName, i)
           /\ DeclaredOneOf(RespName, j)
           /\ BodyStores \in {<<NilAssign(i), NilAssign(j)>>,
                              <<NilAssign(j), NilAssign(i)>>})
             => /\ Len(diags) = 1
                /\ diags[1].kind = "potential nil field"
                /\ diags[1].Resp = RespName
                /\ diags[1].Field = NamedTypes[RespName].fields[i + 1].Name
    /\ (/\ hpc = "done"
        /\ \E j \in 0..2 : DeclaredOneOf(RespName, j)
        /\ \A i \in 0..2 : ~DeclaredNonOptional(RespName, i)
        /\ \E j \in 0..2 : /\ DeclaredOneOf(RespName, j)
                           /\ \E k \in DOMAIN BodyStores :
                                 BodyStores[k] = NilAssign(j))
          => diags = <<>>

\* C15 witness: the handler of GetEventResponse has assigned nil to
\* OptionalDate and then to EventDate, and one diagnostic was reported.
NilToOptionalDateAndEventDate ==
    /\ hpc = "done"
    /\ RespName = "GetEventResponse"
    /\ DeclaredNonOptional(RespName, 0)
    /\ DeclaredOneOf(RespName, 1)
    /\ BodyStores = <<NilAssign(1), NilAssign(0)>>
    /\ Len(diags) = 1
    /\ diags[1].Field = "EventDate"

\* Field i (counted from 0) of the struct resp as declared: an exported
\* slice of messages or of pointers to messages.
DeclaredRepeatedMessage(resp, i) ==
    /\ i + 1 \in DOMAIN NamedTypes[resp].fields
    /\ LET f == NamedTypes[resp].fields[i + 1]
       IN  /\ f.Exported
           /\ f.Type[1] = "[]"
           /\ IsMessageName(StripPointer(Tail(f.Type)))

\* The repeated message fields of resp whose type is t.
RepeatedOfType(resp, t) ==
    {i \in 0..2 : /\ DeclaredRepeatedMessage(resp, i)
                  /\ NamedTypes[resp].fields[i + 1].Type = t}

\* C16: a store to an element of a slice whose type is that of a repeated
\* message field of the response is reported once, as a nil element of that
\* field, when the stored value may be nil, and not when it is NotNil; a
\* store of a slice into the repeated field itself is not reported; a store
\* to an element of a slice of scalars or of maps is not reported.
ElementStoreReportedIffMaybeNil ==
    (scanned # <<>> /\ scanned[1].instr.op = "Store") =>
        LET s == scanned[1]
            addr == s.instr.Addr
            status == StatusOf(s.instr.Val)
        IN  /\ (addr.kind = "IndexAddr"
                /\ RepeatedOfType(RespName, addr.XType) # {}) =>
                  LET i == CHOOSE i \in RepeatedOfType(RespName, addr.XType) :
                              \A j \in RepeatedOfType(RespName, addr.XType) :
                                  i <= j
                  IN  /\ status # NilStatusNotNil =>
                            /\ s.emitted = 1
                            /\ diags # <<>>
                            /\ diags[Len(diags)] =
                                  [kind |-> "potential nil element",
                                   Resp |-> "",
                                   Field |-> NamedTypes[RespName].fields[i + 1].Name,
                                   Service |-> handler.ServiceName,
                                   Method |-> handler.MethodName,
                                   at |-> s.at]
                      /\ status = NilStatusNotNil => s.emitted = 0
            /\ (addr.kind = "FieldAddr"
                /\ addr.XType = handler.ResponseType
                /\ DeclaredRepeatedMessage(RespName, addr.Field)) =>
                  s.emitted = 0
            /\ (addr.kind = "IndexAddr"
                /\ addr.XType[1] = "[]"
                /\ addr.XType[2] \in {"int32", "map"}) =>
                  s.emitted = 0

\* C16 witness: the result of buildProfileMaybeNil was stored into an
\* element of a []*User in the handler of ListUsersResponse and reported as
\* a nil element of Users.
MaybeNilStoredIntoUsersElement ==
    /\ scanned # <<>>
    /\ RespName = "ListUsersResponse"
    /\ scanned[1].instr = StoreInstr(IndexAddr(Slice(Pointer(Named("User")))), 4)
    /\ StatusOf(4) = NilStatusMaybeNil
    /\ RepeatedOfType(RespName, Slice(Pointer(Named("User")))) = {0}
    /\ scanned[1].emitted = 1
    /\ diags[Len(diags)].kind = "potential nil element"
    /\ diags[Len(diags)].Field = "Users"

---------------------------------------------------------------------------
(* A handler that stores a merged value and the result of a helper into    *)
(* GetUserResponse.Profile, the edges of the merge and the body of the     *)
(* helper drawn                                                            *)

MergeValue == 6
HelperCall == 5

\* The values of the handler: the leaves, the call of the helper and a phi
\* whose edges are any of the values, itself included.
MergeValues(edges) ==
    <<ConstNil, AllocInstr, ParameterInstr, ConstNonNil, CallInstr(1),
      Phi(edges)>>

InitMerge ==
    /\ \E edges \in EdgeSeqs(MergeValue) : ssa = MergeValues(edges)
    /\ \E body \in FnBodies : fns = <<body>>
    /\ AnalyzerInit
    /\ JoinIdle
    /\ handler = [Function |->
                     [Blocks |->
                         <<<<AssignField("GetUserResponse", 0, MergeValue)>>,
                           <<AssignField("GetUserResponse", 0, HelperCall),
                             ReturnStmt>>>>],
                  ResponseType |-> Pointer(Named("GetUserResponse")),
                  ServiceName |-> "Service",
                  MethodName |-> "Handle"]
    /\ hpc = "idle"
    /\ pos = <<1, 1>>
    /\ msgInfo = <<>>
    /\ cache = <<>>
    /\ diags = <<>>
    /\ scanned = <<>>
    /\ queries = 0
    /\ srcFuncs = <<>>
    /\ fnIdx = 0
    /\ generated = <<>>
    /\ runs = <<>>

SpecMerge == InitMerge /\ [][NextDriver]_vars

\* The store scanned last stored value v into a MessagePointer field.
ScannedStoreOf(v) ==
    /\ ScannedMessagePointerStore
    /\ scanned[1].instr.Val = v

\* C17: the store of a phi into a MessagePointer field is reported, once, if
\* and only if some edge of the phi has a status other than NotNil; so a
\* merge of an allocation with nil is reported once and a merge of
\* allocations is not, in whatever order the edges are.
PhiStoreReportedIffSomeEdgeNotNotNil ==
    ScannedStoreOf(MergeValue) =>
        LET edges == ssa[MergeValue].Edges
            someNot == \E k \in DOMAIN edges :
                          StatusOf(edges[k]) # NilStatusNotNil
        IN  /\ ssa[MergeValue].kind = "Phi"
            /\ scanned[1].emitted = IF someNot THEN 1 ELSE 0
            /\ ({ssa[edges[k]] : k \in DOMAIN edges} = {AllocInstr, ConstNil}
                  => scanned[1].emitted = 1)
            /\ ({ssa[edges[k]] : k \in DOMAIN edges} = {AllocInstr}
                  => scanned[1].emitted = 0)

\* C17 witness: the merge of an allocation with nil, the allocation first,
\* was stored and reported.
AllocNilMergeReported ==
    /\ ScannedStoreOf(MergeValue)
    /\ ssa[MergeValue] = Phi(<<2, 1>>)
    /\ ssa[2] = AllocInstr
    /\ ssa[1] = ConstNil
    /\ scanned[1].emitted = 1
    /\ diags[Len(diags)].Field = "Profile"

\* The first results of the return sites of body.
ReturnSiteResults(body) ==
    UNION {{body[b][i].Results[1] :
               i \in {j \in DOMAIN body[b] : /\ body[b][j].op = "Return"
                                             /\ body[b][j].Results # <<>>}} :
           b \in DOMAIN body}

\* C18: the store of the result of a call of a helper into a MessagePointer
\* field is reported, once, if and only if some return site of the helper
\* has a first result that is neither an allocation nor a non-nil constant;
\* so a helper that returns an allocation on one branch and nil on the other
\* is reported once, and one that returns allocations only is not.
CallStoreReportedIffSomeReturnSiteUnsafe ==
    ScannedStoreOf(HelperCall) =>
        LET results == ReturnSiteResults(fns[ssa[HelperCall].callee])
        IN  /\ ssa[HelperCall].kind = "Call"
            /\ scanned[1].emitted =
                  IF results \subseteq {"Alloc", "Const"} THEN 0 ELSE 1
            /\ results = {"Alloc", "ConstNil"} => scanned[1].emitted = 1
            /\ results = {"Alloc"} => scanned[1].emitted = 0

\* C18 witness: the helper returns an allocation in one block and nil in
\* the other, and the store of its result was reported.
AllocOrNilHelperReported ==
    /\ ScannedStoreOf(HelperCall)
    /\ fns[1] = <<<<OtherInstr, ReturnInstr(<<"Alloc">>)>>,
                  <<OtherInstr, ReturnInstr(<<"ConstNil">>)>>>>
    /\ scanned[1].emitted = 1
    /\ diags[Len(diags)].Field = "Profile"
    /\ diags[Len(diags)].at = <<2, 1>>

---------------------------------------------------------------------------
(* Claims about the status of a merge and the summary of a callee *)

\* The join, by the join table, of the elements of a non-empty sequence.
RECURSIVE TableJoinAll(_)
TableJoinAll(statuses) ==
    IF Len(statuses) = 1 THEN statuses[1]
    ELSE JoinTable(statuses[1], TableJoinAll(Tail(statuses)))

\* C19: the status of a phi is the join, by the join table, of the statuses
\* of all its edges, the early stop at MaybeNil or DefinitelyNil
\* notwithstanding.  Stated for a phi that is not its own edge, right after
\* the query that evaluated it.
PhiStatusIsTableJoinOfEdges ==
    (/\ ScannedStoreOf(MergeValue)
     /\ \A k \in DOMAIN ssa[MergeValue].Edges :
           ssa[MergeValue].Edges[k] # MergeValue) =>
        visited[MergeValue] =
            TableJoinAll([k \in DOMAIN ssa[MergeValue].Edges |->
                             StatusOf(ssa[MergeValue].Edges[k])])

\* The contribution of a return site's first result to the summary.
SiteContribution(rv) ==
    CASE rv = "Alloc" -> NilStatusNotNil
      [] rv = "ConstNil" -> NilStatusDefinitelyNil
      [] rv = "Const" -> NilStatusNotNil
      [] OTHER -> NilStatusMaybeNil

\* The contributions of the return sites of body, in the order of the scan.
SiteContributions(body) ==
    LET sites == SelectSeq(Flatten(body),
                           LAMBDA i : i.op = "Return" /\ i.Results # <<>>)
    IN  [k \in DOMAIN sites |-> SiteContribution(sites[k].Results[1])]

\* C20 as stated: the summary of a callee is the join, by the join table,
\* of the contributions of all its return sites.
SummaryIsTableJoinOfSites ==
    \A f \in Funcs :
        (funcSummary[f] # Absent /\ SiteContributions(fns[f]) # <<>>) =>
            funcSummary[f] = TableJoinAll(SiteContributions(fns[f]))

\* C20, amended: the summary of a callee is the join of NotNil with the
\* contributions of all its return sites: NotNil when every return site
\* contributes NotNil, also when there is none, and MaybeNil otherwise,
\* never DefinitelyNil.
SummaryIsJoinFromNotNil ==
    \A f \in Funcs :
        funcSummary[f] # Absent =>
            LET c == SiteContributions(fns[f])
            IN  /\ funcSummary[f] =
                      TableJoinAll(<<NilStatusNotNil>> \o c)
                /\ funcSummary[f] =
                      IF \A k \in DOMAIN c : c[k] = NilStatusNotNil
                      THEN NilStatusNotNil ELSE NilStatusMaybeNil

\* C20 witness: the summary of a callee whose only return site returns nil
\* has been computed, and is MaybeNil.
NilOnlyCalleeSummarized ==
    /\ fns[1] = <<<<OtherInstr, ReturnInstr(<<"ConstNil">>)>>>>
    /\ SiteContributions(fns[1]) = <<NilStatusDefinitelyNil>>
    /\ funcSummary[1] = NilStatusMaybeNil

---------------------------------------------------------------------------
(* ValueNilStatus on acyclic value graphs of every instruction kind        *)

MaxChain == 2   \* instructions with an operand, each after its operand

\* A nil constant, a non-nil constant, an allocation, a parameter (an
\* instruction kind ValueNilStatus has no case for) and a call without a
\* static callee.
RuleLeaves ==
    <<ConstNil, ConstNonNil, AllocInstr, ParameterInstr, CallInstr(NoFunc)>>

\* The instructions value v may be: its operand is a value defined before
\* it, or the nil value reference.
UnaryInstrs(v) ==
    {MakeInterface(x) : x \in 0..(v - 1)}
        \cup {ChangeInterface(x) : x \in 0..(v - 1)}
        \cup {UnOp("MUL", x) : x \in 0..(v - 1)}
        \cup {UnOp("ARROW", x) : x \in 0..(v - 1)}

RECURSIVE ChainsUpTo(_)
ChainsUpTo(v) ==
    IF v <= Len(RuleLeaves) THEN {SubSeq(RuleLeaves, 1, v)}
    ELSE {Append(g, instr) : g \in ChainsUpTo(v - 1), instr \in UnaryInstrs(v)}

RuleGraphs == ChainsUpTo(Len(RuleLeaves) + MaxChain)

InitRules ==
    /\ ssa \in RuleGraphs
    /\ fns = <<>>
    /\ AnalyzerInit
    /\ JoinIdle
    /\ DriverIdle

\* NewNilFlowAnalyzer().ValueNilStatus(v), v a value or the nil reference.
EvaluateNew ==
    /\ \E v \in Values \cup {NoValue} :
          SetMachine(ValueNilStatus(NewNilFlowAnalyzer(ssa, fns), ssa, fns, v))
    /\ UNCHANGED <<ssa, fns, returned, answered, summaryLog, joinVars,
                   driverVars, progVars>>

SpecRules == InitRules /\ [][EvaluateNew]_vars

\* The status the per-instruction rules give value v of the acyclic graph g.
RECURSIVE RuleStatus(_, _)
RuleStatus(g, v) ==
    IF v = NoValue THEN "Unknown"
    ELSE CASE g[v].kind = "Const" ->
                 IF g[v].isNil THEN "DefinitelyNil" ELSE "NotNil"
           [] g[v].kind = "Alloc" -> "NotNil"
           [] g[v].kind \in {"MakeInterface", "ChangeInterface"} ->
                 RuleStatus(g, g[v].X)
           [] g[v].kind = "UnOp" /\ g[v].op = "MUL" -> RuleStatus(g, g[v].X)
           [] OTHER -> "Unknown"

\* C21: on an acyclic value graph every status ValueNilStatus caches or
\* returns is the one the per-instruction rules give: constants by their
\* nil-ness, allocations NotNil, interface construction, interface change
\* and dereference the status of the operand, everything else Unknown.
StatusFollowsInstructionRules ==
    /\ \A v \in Values :
          visited[v] # Absent => visited[v] = RuleStatus(ssa, v)
    /\ stack = <<>> => ret = RuleStatus(ssa, lastCall.v)

\* C21 witness: a dereference of an interface made from the nil constant
\* was evaluated and is DefinitelyNil, its operand too.
DerefOfInterfaceOfNilEvaluated ==
    /\ Len(ssa) = 7
    /\ ssa[6] = MakeInterface(1)
    /\ ssa[7] = UnOp("MUL", 6)
    /\ lastCall.v = 7
    /\ ret = NilStatusDefinitelyNil
    /\ visited[6] = NilStatusDefinitelyNil
    /\ visited[1] = NilStatusDefinitelyNil

---------------------------------------------------------------------------
(* Claims that compare the analysed program with a smaller one *)

\* s without its element at position k.
RemoveAt(s, k) == SubSeq(s, 1, k - 1) \o SubSeq(s, k + 1, Len(s))

\* The value graph g with edge k of the phi p removed.
WithoutEdge(g, p, k) == [g EXCEPT ![p].Edges = RemoveAt(@, k)]

\* The status a new analyzer computes for value v of graph g with the
\* functions F.
StatusIn(g, F, v) == ValueNilStatus(NewNilFlowAnalyzer(g, F), g, F, v).ret

\* C22: adding an edge to a phi, or a return site to a callee, never turns
\* the status of a value from MaybeNil, DefinitelyNil or Unknown into
\* NotNil.  Stated for the value stored last, the phi or the call, the two
\* values whose status depends on the edges and on the callee, and for
\* every program the one at hand results from by such an addition.
AddingEdgeOrReturnSiteNeverYieldsNotNil ==
    (scanned # <<>> /\ scanned[1].queried) =>
        LET v == scanned[1].instr.Val IN
        /\ v = MergeValue =>
              \A k \in DOMAIN ssa[MergeValue].Edges :
                 StatusIn(WithoutEdge(ssa, MergeValue, k), fns, v)
                       # NilStatusNotNil
                    => ret # NilStatusNotNil
        /\ \A b \in DOMAIN fns[1] :
              StatusIn(ssa, <<RemoveAt(fns[1], b)>>, v) # NilStatusNotNil
                 => ret # NilStatusNotNil

\* C22 witness: the phi of an allocation and nil was stored; without its
\* second edge it is NotNil, with it MaybeNil; the helper returns an
\* allocation and nil, without its second block its summary is NotNil.
EdgeAndReturnSiteAdded ==
    /\ scanned # <<>>
    /\ scanned[1].instr.Val = MergeValue
    /\ ssa[MergeValue] = Phi(<<2, 1>>)
    /\ StatusIn(WithoutEdge(ssa, MergeValue, 2), fns, MergeValue)
          = NilStatusNotNil
    /\ ret = NilStatusMaybeNil
    /\ fns[1] = <<<<OtherInstr, ReturnInstr(<<"Alloc">>)>>,
                  <<OtherInstr, ReturnInstr(<<"ConstNil">>)>>>>
    /\ StatusIn(ssa, <<RemoveAt(fns[1], 2)>>, HelperCall) = NilStatusNotNil
    /\ funcSummary[1] = Absent

---------------------------------------------------------------------------
(* Claims about the order of the diagnostics and about repeated runs *)

\* Position a comes before position b in program order: blocks in the
\* function's order, instructions in order within a block.
PosBefore(a, b) == a[1] < b[1] \/ (a[1] = b[1] /\ a[2] < b[2])

\* C23: the diagnostics of a handler are emitted in the program order of
\* the stores they are about, at most one for a store: every step leaves
\* the diagnostics as they are or appends one, for the store instruction
\* just scanned, which comes after every store reported before.
DiagnosticsInProgramOrder ==
    [][\/ diags' = diags
       \/ /\ Len(diags') = Len(diags) + 1
          /\ SubSeq(diags', 1, Len(diags)) = diags
          /\ diags'[Len(diags')].at = pos
          /\ handler.Function.Blocks[pos[1]][pos[2]].op = "Store"
          /\ \A k \in DOMAIN diags : PosBefore(diags[k].at, pos)]_vars

\* C23 witness: two stores in different blocks have been reported, the one
\* of the entry block first.
TwoBlocksReportedInOrder ==
    /\ hpc = "done"
    /\ Len(diags) = 2
    /\ diags[1].at = <<1, 1>>
    /\ diags[2].at = <<2, 1>>
    /\ diags[1].Field # diags[2].Field

---------------------------------------------------------------------------
(* The analyzer run again on the same package, with new analyzers, the     *)
(* functions walked in the same or in another order                        *)

MaxRuns == 2   \* runs of the analyzer on a package

\* The orders the functions fs can be walked in.
Orders(fs) ==
    {[i \in DOMAIN fs |-> fs[p[i]]] : p \in Permutations(DOMAIN fs)}

\* run has walked all functions.
RunFinished == hpc = "run" /\ fnIdx > Len(srcFuncs)

\* run is called again: NewProtoFieldAnalyzer(), NewNilFlowAnalyzer(), and
\* the walk starts over.
Rerun ==
    /\ RunFinished
    /\ Len(runs) + 1 < MaxRuns
    /\ runs' = Append(runs, [funcs |-> srcFuncs, diags |-> diags])
    /\ srcFuncs' \in Orders(srcFuncs)
    /\ fnIdx' = 1
    /\ LET m == NewNilFlowAnalyzer(ssa, fns)
       IN  SetMachine(m)
    /\ cache' = <<>>
    /\ diags' = <<>>
    /\ UNCHANGED <<ssa, fns, returned, answered, summaryLog, joinVars,
                   handler, hpc, pos, msgInfo, scanned, queries, generated>>

NextTwice == NextRun \/ Rerun

SpecTwice == InitRun /\ [][NextTwice]_vars

DiagnosticsOf(ds, name) == SelectSeq(ds, LAMBDA d : d.Method = name)

\* C26: the diagnostics of a handler, and their order, are the same in
\* whatever order the handlers of the package are analysed with the same
\* analyzers.
OrderOfHandlersIrrelevant ==
    \A k \in DOMAIN runs :
        RunFinished =>
            \A i \in DOMAIN srcFuncs :
                DiagnosticsOf(diags, srcFuncs[i].Name)
                    = DiagnosticsOf(runs[k].diags, srcFuncs[i].Name)

\* C26 witness: two handlers that call buildProfileMaybeNil, one of them
\* through a phi, were analysed in one order and then in the other; the
\* second handler of the second run found the summary the first had left.
OtherOrderAnalysed ==
    /\ RunFinished
    /\ Len(runs) = 1
    /\ runs[1].funcs = <<GetUserSubcallMaybe, GetUserIfElseMaybe>>
    /\ srcFuncs = <<GetUserIfElseMaybe, GetUserSubcallMaybe>>
    /\ Len(diags) = 2
    /\ scanned[1].before.funcSummary[1] # Absent
    /\ DiagnosticsOf(diags, "GetUserSubcallMaybe") # <<>>

---------------------------------------------------------------------------
(* Claims about the descriptors of AnalyzeMessage, checked under           *)
(* SpecClassify                                                            *)

\* C25: a call of AnalyzeMessage returns the descriptor of the type asked
\* for; when the type was analysed before, it is the descriptor returned
\* then; and no call changes or removes the descriptor of any type analysed
\* before, the same or another.
DescriptorsCachedAndStable ==
    [][/\ \A t \in DOMAIN cache :
             t \in DOMAIN cache' /\ cache'[t] = cache[t]
       /\ msgInfo'[1].Type = scanned'[1].named
       /\ cache'[scanned'[1].named] = msgInfo'[1]
       /\ scanned'[1].hit => msgInfo'[1] = cache[scanned'[1].named]]_vars

\* C25 witness: Generated, a struct of two exported fields, was asked for
\* again after Plain had been analysed, and the cache had it.
GeneratedAskedForAgain ==
    /\ scanned # <<>>
    /\ scanned[1].hit
    /\ scanned[1].named = "Generated"
    /\ "Plain" \in DOMAIN cache
    /\ Len(msgInfo[1].Fields) = 2
    /\ msgInfo[1] = cache["Generated"]

---------------------------------------------------------------------------
(* The nil-flow analyzer on recursive procedures: the return sites of the  *)
(* callees return values of the graph, calls of the callees among them     *)

\* The case of the type switch in callNilStatus that a returned value takes.
ResultKind(val) ==
    CASE val.kind = "Alloc" -> "Alloc"
      [] val.kind = "Const" -> IF val.isNil THEN "ConstNil" ELSE "Const"
      [] OTHER -> "Other"

\* The values the return sites of function 1 and of function 2 return, one
\* return site to a block.
ReturnedValues == <<<<1, 2>>, <<3>>>>

\* The body of a function whose return sites return the values rs of g.
BodyReturning(g, rs) ==
    [k \in 1..Len(rs) |-> <<OtherInstr, ReturnInstr(<<ResultKind(g[rs[k]])>>)>>]

\* What a returned value may be: a constant, an allocation, a parameter, a
\* call of function 1 or 2 or of an unknown callee, or a conversion of the
\* call site in the handler.
ReturnedInstrs ==
    {ConstNil, ConstNonNil, AllocInstr, ParameterInstr, CallInstr(1),
     CallInstr(2), CallInstr(NoFunc), MakeInterface(4)}

\* The call site in the handler and what the handler may store.
HandlerInstrs == {CallInstr(1), CallInstr(2), MakeInterface(1), Phi(<<1, 3>>)}

InitRecursive ==
    /\ \E r1, r2, r3 \in ReturnedInstrs : \E h \in HandlerInstrs :
          ssa = <<r1, r2, r3, h>>
    /\ fns = [f \in DOMAIN ReturnedValues |->
                 BodyReturning(ssa, ReturnedValues[f])]
    /\ AnalyzerInit
    /\ JoinIdle
    /\ DriverIdle

SpecRecursive == InitRecursive /\ [][NextFlow]_vars

\* The running call is about to evaluate the call instruction v, which has
\* no status yet.
EvaluatesCall(v) ==
    /\ stack # <<>>
    /\ stack[Len(stack)].v = v
    /\ stack[Len(stack)].pc = "enter"
    /\ ssa[v].kind = "Call"
    /\ visited[v] = Absent

\* C27: the evaluation of a call instruction, the summary computation of its
\* callee included, is one step that returns to its caller without calling
\* ValueNilStatus or summarizing another procedure: it gives a status to the
\* call instruction and to no other value, evaluates the rule of no other
\* value, and leaves the summary of every other procedure as it was; the
\* summary it computes is NotNil or MaybeNil whatever the callee returns,
\* calls of itself or of its caller included.
SummaryComputationDoesNotReenter ==
    [][\A v \in Values :
          EvaluatesCall(v) =>
              /\ stack' = SubSeq(stack, 1, Len(stack) - 1)
              /\ steps' = steps + 1
              /\ \A w \in Values \ {v} :
                    visited'[w] = visited[w] /\ evals'[w] = evals[w]
              /\ visited'[v] = ret'
              /\ \A f \in Funcs \ {ssa[v].callee} :
                    funcSummary'[f] = funcSummary[f]
              /\ ssa[v].callee # NoFunc =>
                    /\ funcSummary'[ssa[v].callee] = ret'
                    /\ ret' \in {NilStatusNotNil, NilStatusMaybeNil}]_vars

\* C27 witness: function 1 returns a call of itself (value 1) and a call of
\* function 2, function 2 returns a call of function 1, and the query of
\* the call of function 1 in its own body has returned MaybeNil in one step,
\* with no other value visited and function 2 not summarized.
RecursiveCalleesSummarized ==
    /\ ssa[1] = CallInstr(1)
    /\ ssa[2] = CallInstr(2)
    /\ ssa[3] = CallInstr(1)
    /\ stack = <<>>
    /\ steps = 1
    /\ lastCall.v = 1
    /\ visited[1] = NilStatusMaybeNil
    /\ funcSummary[1] = NilStatusMaybeNil
    /\ funcSummary[2] = Absent
    /\ \A w \in {2, 3, 4} : visited[w] = Absent

---------------------------------------------------------------------------
(* The handler driver on field stores whose base is given: the base of a   *)
(* field selection is a value of the handler, its type any struct pointer  *)

\* &x.f with the base x: addr.X is the value x, addr.X.Type() is xType.
FieldAddrOf(x, xType, field) ==
    [kind |-> "FieldAddr", XType |-> xType, Field |-> field, X |-> x]

\* The bases of the field selections: the allocation, the parameter and the
\* result of a call among HandlerValues.
BaseValues == {2, 3, 5}

\* The struct types the bases point to: the response, two other responses
\* and the receiver, which all have a message pointer at index 0.
BaseTypes(resp) == {resp, "GetUserResponse", "GetEventResponse", "Service"}

BaseResponseTypes == {"GetUserResponse", "GetEventResponse", "MixedResponse"}

\* The stores of a nil and of an allocation through the field selections.
BaseStores(resp) ==
    {StoreInstr(FieldAddrOf(x, Pointer(Named(t)), i), v) :
        x \in BaseValues, t \in BaseTypes(resp), i \in 0..1, v \in {1, 2}}

BaseBodies(resp) ==
    {BlocksOf(s) :
        s \in UNION {[1..n -> BaseStores(resp)] : n \in 0..MaxStores}}

InitBases ==
    /\ ssa = HandlerValues
    /\ fns = <<buildProfileMaybeNil, buildProfileNonNil>>
    /\ AnalyzerInit
    /\ JoinIdle
    /\ \E resp \in BaseResponseTypes : \E body \in BaseBodies(resp) :
          handler = [Function |-> [Blocks |-> body],
                     ResponseType |-> Pointer(Named(resp)),
                     ServiceName |-> "Service",
                     MethodName |-> "Handle"]
    /\ hpc = "idle"
    /\ pos = <<1, 1>>
    /\ msgInfo = <<>>
    /\ cache = <<>>
    /\ diags = <<>>
    /\ scanned = <<>>
    /\ queries = 0
    /\ srcFuncs = <<>>
    /\ fnIdx = 0
    /\ generated = <<>>
    /\ runs = <<>>

SpecBases == InitBases /\ [][NextDriver]_vars

\* C28: for a store through a field selection, whatever value the base is:
\* when the field index names a non-optional message pointer of the response
\* R, the stored value is checked exactly when the base has type
\* pointer-to-R; the store is reported exactly when the base has type
\* pointer-to-R, the index names such a field and the stored value may be
\* nil; and a store through a base of any other struct type is neither
\* checked nor reported.
ResponseStoreIffBaseIsResponsePointer ==
    (/\ scanned # <<>>
     /\ scanned[1].instr.op = "Store"
     /\ scanned[1].instr.Addr.kind = "FieldAddr")
      => LET addr == scanned[1].instr.Addr
             onResponse == addr.XType = Pointer(Named(RespName))
             risky == DeclaredNonOptional(RespName, addr.Field)
         IN  /\ risky => (scanned[1].queried <=> onResponse)
             /\ scanned[1].emitted = 1 <=>
                   /\ onResponse
                   /\ risky
                   /\ StatusOf(scanned[1].instr.Val) # NilStatusNotNil
             /\ ~onResponse =>
                   ~scanned[1].queried /\ scanned[1].emitted = 0

\* C28 witness: the handler of GetUserResponse stored nil into field 0 of
\* the receiver, whose base is the allocation, without a report, and then
\* into field 0 of a response that is a parameter, which was reported.
NilStoredThroughReceiverThenParameter ==
    /\ scanned # <<>>
    /\ RespName = "GetUserResponse"
    /\ Len(BodyStores) = 2
    /\ BodyStores[1] =
          StoreInstr(FieldAddrOf(2, Pointer(Named("Service")), 0), 1)
    /\ scanned[1].instr =
          StoreInstr(FieldAddrOf(3, Pointer(Named("GetUserResponse")), 0), 1)
    /\ scanned[1].at = <<2, 1>>
    /\ scanned[1].emitted = 1
    /\ Len(diags) = 1

---------------------------------------------------------------------------
(* Claims about the algebra of joinNilStatus, checked under SpecJoin *)

\* C29: joinNilStatus is associative: joining a with b and the result with
\* c gives what joining a with the join of b and c gives, for all a, b, c of
\* the four lattice elements.
JoinAssociative ==
    joinOut # <<>> => joinOut.ab_c = joinOut.a_bc

---------------------------------------------------------------------------
(* Claims about the shape of the descriptors, checked under SpecClassify   *)

\* The positional indices (counted from 0) of the exported fields among
\* fields[1..n], in declaration order.
RECURSIVE ExportedIndices(_, _)
ExportedIndices(fields, n) ==
    IF n = 0 THEN <<>>
    ELSE IF fields[n].Exported
    THEN Append(ExportedIndices(fields, n - 1), n - 1)
    ELSE ExportedIndices(fields, n - 1)

\* C30: in every descriptor AnalyzeMessage has returned, Fields lists the
\* exported fields of the struct in declaration order, Risky is the
\* subsequence of Fields whose risk is not Safe, FieldByID has an entry for
\* the positional index of each exported field and for no other index, the
\* entry being the one of Fields, and no field has the risk
\* ImplicitRequirement.
DescriptorWellFormed ==
    \A n \in DOMAIN cache :
        LET info == cache[n]
            declared == NamedType(n).fields
            exported == ExportedIndices(declared, Len(declared))
        IN  /\ info.Type = n
            /\ Len(info.Fields) = Len(exported)
            /\ \A k \in 1..Len(exported) :
                  /\ info.Fields[k].Name = declared[exported[k] + 1].Name
                  /\ info.Fields[k].Type = declared[exported[k] + 1].Type
                  /\ info.Fields[k] = info.FieldByID[exported[k]]
                  /\ info.Fields[k].Risk # FieldRiskImplicitRequirement
            /\ DOMAIN info.FieldByID =
                  {exported[k] : k \in 1..Len(exported)}
            /\ info.Risky =
                  SelectSeq(info.Fields, LAMBDA f : f.Risk # FieldRiskSafe)

\* C30 witness: a struct whose first field is not exported and whose second
\* is a message pointer was analysed: the one entry of Fields is the one of
\* Risky and is found under the index 1; the type Code, which is not a
\* struct, was analysed before.
UnexportedFieldBeforeRiskyOne ==
    /\ msgInfo # <<>>
    /\ msgInfo[1].Type = "Generated"
    /\ Len(generated) = 2
    /\ ~generated[1].Exported
    /\ generated[2].Exported
    /\ Len(msgInfo[1].Fields) = 1
    /\ DOMAIN msgInfo[1].FieldByID = {1}
    /\ msgInfo[1].Risky = msgInfo[1].Fields
    /\ msgInfo[1].Fields[1].Risk = FieldRiskMessagePointer
    /\ "Code" \in DOMAIN cache

=============================================================================
